---------------------------- MODULE Spec2Model ----------------------------
(***************************************************************************)
(* Model of the entity-component core of the evolution simulator: World,   *)
(* EntityFactory, FoodSystem, PhysicsSystem, EvolutionSystem and the       *)
(* mutation / selection functions.                                         *)
(*                                                                         *)
(* Units.  Lengths are integers in tenths of a pixel (the source uses      *)
(* floats in pixels), fitness is in tenths of a fitness point (the source  *)
(* adds 0.1 and FOOD_VALUE), times are in milliseconds, genetic fields are *)
(* in thousandths.  Math.random() outcomes are inputs drawn from small     *)
(* sets.                                                                   *)
(***************************************************************************)
EXTENDS Integers, Sequences, FiniteSets, TLC

VARIABLES
  world,            \* World: [entities : id -> entity record, nextEntityId]
  foodAmount,       \* EvolutionSystem.foodAmount
  populationSize,   \* EvolutionSystem.populationSize
  generationCount,  \* EvolutionSystem.generationCount
  foodsEaten,       \* FoodSystem.foodsEaten
  accumulatedTime,  \* FoodSystem.accumulatedTime (ms)
  lastOp,           \* name of the operation that produced this state
  thrown,           \* TRUE iff that operation ended with an uncaught TypeError
  ticks,            \* World.update calls so far
  contested,        \* history: in the last FoodSystem.update some food was
                    \* within reach of two different organisms
  systems,          \* World.systems, in registration order
  ran,              \* position of World.update in its loop: the systems
                    \* whose update has run in the current (or last) tick
  pjoints,          \* joint id -> [isAnchored, position, velocity, force, ...]
                    \* of the joints the systems of the pipeline work on
  physicsFile,      \* which PhysicsSystem source the build holds
  pstale,           \* history: PhysicsSystem integrated a force that was
                    \* written in an earlier tick
  selOrganisms,     \* selectParentWeighted: the argument list (fitness values)
  selResult,        \* selectParentWeighted: index returned from 1, 0 for
                    \* undefined, -1 before the first call
  genetics,         \* a GeneticComponent (patternSpeed, bodyPlanSeed)
  gene,             \* a Gene (sensorDistance, moveThreshold, ...)
  mutations,        \* number of mutate() calls applied so far
  replica,          \* a second run of the joints of the pipeline, fed the
                    \* same ticks and the same Math.random() outcomes
  stateChangeTimer, \* StateSystem.stateChangeTimer: the ids whose flag is set
  pendingTimers,    \* ids whose temporaryStateChange timeout has not fired
  behaviorModes,    \* keys of StateSystem.organismBehaviorModes
  hostVariant,      \* which simulate loop of useECSSimulation.js runs
  frameCount,       \* frameCount of the simulate loop
  generationEndCounter, \* generationEndCounter of the simulate loop
  hostGeneration,   \* the generation number the host shows (setGeneration)
  hostTimer,        \* time of the current generation: elapsedRealTime of
                    \* the first loop (s), timer of the second
  hostOrganisms,    \* number of organisms the host's calls left in the world
  idleFrames,       \* history: frames in a row, in this generation, in
                    \* which no food was eaten
  observed,         \* history: what the last frame observed (elapsed time,
                    \* food count, frame count and stagnation counter
                    \* before any reset, generation number at its start)
  calls,            \* history: createNextGeneration calls made by the last frame
  paramsChanged,    \* history: setParams was called since the last
                    \* initializeGeneration / createNextGeneration
  body,             \* an entity with Position, Velocity and Physics whose
                    \* components may hold non-finite numbers
  springs,          \* joint id -> joint of the organism JointConnectionSystem
                    \* works on (specification SpecSprings)
  connectionFile,   \* which JointConnectionSystem source the build holds
  stateJoints,      \* the isAnchored flags of the joints of the organism
                    \* StateSystem works on, in the order of jointIds
  stateFile,        \* which StateSystem source the build holds
  quota,            \* genetics.anchorRatio of that organism, in hundredths
  parents,          \* the fitness of the organisms of SpecBreed and, as
                    \* history, the ranking, the survivors added at random
                    \* and the reproduceOrganism calls of the last
                    \* createNextGeneration
  hostWorld         \* the hook of SpecPause: its world, EvolutionSystem
                    \* and React state

worldVars == <<world, foodAmount, populationSize, generationCount, foodsEaten,
               accumulatedTime, lastOp, thrown, ticks, contested>>
pipeVars  == <<systems, ran, pjoints, physicsFile, pstale>>
selVars   == <<selOrganisms, selResult>>
mutVars   == <<genetics, gene, mutations>>
replayVars == <<replica>>
timerVars == <<stateChangeTimer, pendingTimers, behaviorModes>>
hostVars  == <<hostVariant, frameCount, generationEndCounter, hostGeneration,
               hostTimer, hostOrganisms, idleFrames, observed, calls>>
foodVars  == <<paramsChanged>>
pauseVars == <<hostWorld>>
evoVars   == <<parents, pauseVars>>
moreVars  == <<stateJoints, stateFile, quota, evoVars>>
restVars  == <<springs, connectionFile, moreVars>>
lateVars  == <<body, restVars>>
extVars   == <<replayVars, timerVars, hostVars, foodVars, lateVars>>
vars == <<worldVars, pipeVars, selVars, mutVars, extVars>>

(***************************************************************************)
(* Program constants (src/unnamed/part_018, constants.js part).            *)
(***************************************************************************)
CANVAS_WIDTH == 800
CANVAS_HEIGHT == 500
MIN_JOINT_COUNT == 3
MAX_JOINT_COUNT == 8
EATING_DISTANCE == 15
FOOD_VALUE == 10
GENERATION_TIME == 2500
JOINT_DAMPING == 98      \* 0.98, in hundredths

(***************************************************************************)
(* Bounds of the model.                                                    *)
(***************************************************************************)
MaxTicks == 1           \* World.update calls explored in one run
MaxGenerations == 1     \* createNextGeneration calls explored
MaxFactoryJoints == 10  \* largest numJoints passed to createOrganism directly
MaxFactoryCalls == 2    \* createOrganism calls explored on one world
MaxSelectLen == 3       \* longest list handed to selectParentWeighted
MaxMutations == 2       \* mutate calls explored in one run
MaxPipelineTicks == 2   \* World.update calls explored by the pipeline model
MaxPendingFlips == 1    \* pending anchor flip-back timeouts per joint
MaxTimerTicks == 2      \* World.update calls explored by the timer model
MaxTimerGenerations == 1 \* createNextGeneration calls between two restarts
MaxTimerIds == 16       \* largest entity id the timer model follows
MaxHostFrames == 1501   \* frames of one generation the host model follows
MaxHostGenerations == 1 \* generations the host model follows after a restart
MaxFedFrames == 2       \* frames at the start of a generation, and after the
                        \* stagnation count has begun, in which food is eaten
MaxPhysicsTicks == 2    \* PhysicsSystem.update calls on the entity of SpecPhysics
MaxSpringTicks == 2     \* World.update calls of SpecSprings
MaxStateTicks == 3      \* StateSystem.update calls of SpecState
MaxBreedMeals == 2      \* foods eaten in SpecBreed
MaxBreedGeneration == 11 \* generationCount up to which SpecBreed breeds
MaxPauseFrames == 3     \* updates one organism generation lives through in SpecPause
MaxPauseGenerations == 3 \* generations that end in SpecPause
MaxPauseWorlds == 5     \* World objects the main effect constructs in SpecPause
MaxReplayTicks == 2     \* ticks given to the two runs of the replay model
MaxFoodTicks == 2       \* World.update calls explored by the food model
MaxFoodGenerations == 1 \* createNextGeneration calls explored by the food model
MaxLineageOrganisms == 2   \* organisms kept in one world of a lineage
MaxLineageGenerations == 1 \* createNextGeneration calls along a lineage

(***************************************************************************)
(* Arithmetic helpers.                                                     *)
(***************************************************************************)
Min(a, b) == IF a < b THEN a ELSE b
Max(a, b) == IF a > b THEN a ELSE b

RECURSIVE ISqrtIter(_, _, _)
ISqrtIter(n, lo, hi) ==
  IF lo >= hi THEN lo
  ELSE LET mid == (lo + hi + 1) \div 2
       IN IF mid * mid <= n THEN ISqrtIter(n, mid, hi)
                            ELSE ISqrtIter(n, lo, mid - 1)

\* Math.sqrt on tenths-of-pixel squares, rounded down
ISqrt(n) == ISqrtIter(n, 0, 12000)

\* Vector2.distanceTo
DistanceTo(p, q) ==
  ISqrt((p[1] - q[1]) * (p[1] - q[1]) + (p[2] - q[2]) * (p[2] - q[2]))

RECURSIVE SortedSeq(_)
\* the elements of a set of ids in ascending order: the iteration order of
\* World.entities (a Map keeps insertion order, ids are handed out ascending)
SortedSeq(S) ==
  IF S = {} THEN <<>>
  ELSE LET m == CHOOSE x \in S : \A y \in S : x <= y
       IN <<m>> \o SortedSeq(S \ {m})

SeqToSet(s) == {s[i] : i \in 1..Len(s)}

\* Array.prototype.includes
Includes(s, x) == \E i \in 1..Len(s) : s[i] = x

(***************************************************************************)
(* World (src/unnamed/part_018).                                           *)
(***************************************************************************)
EmptyWorld == [entities |-> <<>>, nextEntityId |-> 1]

Ids(w) == DOMAIN w.entities

\* World.createEntity followed by the addComponent calls of the factory
CreateEntity(w, components) ==
  [entities |-> (w.nextEntityId :> components) @@ w.entities,
   nextEntityId |-> w.nextEntityId + 1]

\* World.removeEntity
RemoveEntity(w, entityId) ==
  [w EXCEPT !.entities = [i \in (DOMAIN w.entities) \ {entityId} |-> w.entities[i]]]

RECURSIVE RemoveAll(_, _)
RemoveAll(w, ids) ==
  IF ids = <<>> THEN w ELSE RemoveAll(RemoveEntity(w, Head(ids)), Tail(ids))

\* World.clear
Clear(w) == EmptyWorld

\* World.getEntitiesWithComponent, as the sequence of ids in iteration order
EntitiesWith(w, kind) == SortedSeq({i \in Ids(w) : w.entities[i].kind = kind})

OrganismIds(w) == {i \in Ids(w) : w.entities[i].kind = "organism"}
JointIds(w) == {i \in Ids(w) : w.entities[i].kind = "joint"}
FoodIds(w) == {i \in Ids(w) : w.entities[i].kind = "food"}

(***************************************************************************)
(* EntityFactory (src/src/simulation/ecs/EntityFactory.js).                *)
(***************************************************************************)
\* Math.cos / Math.sin of 2*pi*k/m in thousandths, row m, column k+1
UnitCircle ==
  << << <<1000, 0>> >>,
     << <<1000, 0>>, <<-1000, 0>> >>,
     << <<1000, 0>>, <<-500, 866>>, <<-500, -866>> >>,
     << <<1000, 0>>, <<0, 1000>>, <<-1000, 0>>, <<0, -1000>> >>,
     << <<1000, 0>>, <<309, 951>>, <<-809, 588>>, <<-809, -588>>, <<309, -951>> >>,
     << <<1000, 0>>, <<500, 866>>, <<-500, 866>>, <<-1000, 0>>, <<-500, -866>>,
        <<500, -866>> >>,
     << <<1000, 0>>, <<623, 782>>, <<-223, 975>>, <<-901, 434>>, <<-901, -434>>,
        <<-223, -975>>, <<623, -782>> >>,
     << <<1000, 0>>, <<707, 707>>, <<0, 1000>>, <<-707, 707>>, <<-1000, 0>>,
        <<-707, -707>>, <<0, -1000>>, <<707, -707>> >>,
     << <<1000, 0>>, <<766, 643>>, <<174, 985>>, <<-500, 866>>, <<-940, 342>>,
        <<-940, -342>>, <<-500, -866>>, <<174, -985>>, <<766, -643>> >>,
     << <<1000, 0>>, <<809, 588>>, <<309, 951>>, <<-309, 951>>, <<-809, 588>>,
        <<-1000, 0>>, <<-809, -588>>, <<-309, -951>>, <<309, -951>>,
        <<809, -588>> >>,
     << <<1000, 0>>, <<841, 541>>, <<415, 910>>, <<-142, 990>>, <<-655, 756>>,
        <<-959, 282>>, <<-959, -282>>, <<-655, -756>>, <<-142, -990>>,
        <<415, -910>>, <<841, -541>> >> >>

\* (x + cos(angle) * radius, y + sin(angle) * radius) for angle = 2*pi*k/m,
\* radius in pixels, result in tenths of a pixel
OnCircle(x, y, k, m, radius) ==
  <<x + (UnitCircle[m][k + 1][1] * radius) \div 100,
    y + (UnitCircle[m][k + 1][2] * radius) \div 100>>

\* EntityFactory.createFood
CreateFood(w, x, y) == CreateEntity(w, [kind |-> "food", position |-> <<x, y>>])

\* EntityFactory.createJoint followed by organism.jointIds.push(joint.id)
CreateJoint(w, x, y, organismId) ==
  LET id == w.nextEntityId
      w1 == CreateEntity(w, [kind |-> "joint", organismId |-> organismId,
                             position |-> <<x, y>>, isAnchored |-> FALSE,
                             connections |-> <<>>, restLengths |-> <<>>])
  IN [w1 EXCEPT !.entities[organismId].jointIds = Append(@, id)]

\* connectJoints with the reverse entry left out (mutant)
ConnectJointsOneWay(w, a, b) ==
  LET distance == DistanceTo(w.entities[a].position, w.entities[b].position)
      restLength == Max(100, Min(500, distance))
  IN [w EXCEPT !.entities[a].connections = Append(@, b),
               !.entities[a].restLengths = (b :> restLength) @@ @]

\* EntityFactory.connectJoints.  The branch for distance > maxRestLength * 1.5
\* uses Vector2, which the file does not import: it ends in a ReferenceError,
\* recorded as a world whose nextEntityId is 0.
ConnectJoints(w, a, b) ==
  LET distance == DistanceTo(w.entities[a].position, w.entities[b].position)
      minRestLength == 100
      maxRestLength == 500
      restLength == Max(minRestLength, Min(maxRestLength, distance))
  IN IF 2 * distance > maxRestLength * 3
     THEN [w EXCEPT !.nextEntityId = 0]
     ELSE [w EXCEPT !.entities[a].connections = Append(@, b),
                    !.entities[a].restLengths = (b :> restLength) @@ @,
                    !.entities[b].connections = Append(@, a),
                    !.entities[b].restLengths = (a :> restLength) @@ @]

RECURSIVE ConnectPairs(_, _)
\* a run of connectJoints calls, in order
ConnectPairs(w, pairs) ==
  IF pairs = <<>> THEN w
  ELSE ConnectPairs(ConnectJoints(w, Head(pairs)[1], Head(pairs)[2]), Tail(pairs))

RECURSIVE CreateJointsAt(_, _, _)
\* a run of createJoint calls at the given positions, in order
CreateJointsAt(w, organismId, points) ==
  IF points = <<>> THEN w
  ELSE CreateJointsAt(CreateJoint(w, Head(points)[1], Head(points)[2], organismId),
                      organismId, Tail(points))

\* EntityFactory.createTriangleStructure: centre joint and two joints at
\* angles 0 and pi, radius 25, connected 0-1, 1-2, 2-0
CreateTriangleStructure(w, x, y, org) ==
  LET w1 == CreateJointsAt(w, org,
              <<<<x, y>>, OnCircle(x, y, 0, 2, 25), OnCircle(x, y, 1, 2, 25)>>)
      j == w1.entities[org].jointIds
  IN ConnectPairs(w1, <<<<j[1], j[2]>>, <<j[2], j[3]>>, <<j[3], j[1]>>>>)

\* EntityFactory.createStarStructure
CreateStarStructure(w, x, y, org, numJoints) ==
  LET outer == numJoints - 1
      w1 == CreateJointsAt(w, org,
              <<<<x, y>>>> \o [i \in 1..outer |-> OnCircle(x, y, i - 1, outer, 25)])
      j == w1.entities[org].jointIds
      spokes == [i \in 1..outer |-> <<j[1], j[i + 1]>>]
      ring == [i \in 1..outer |-> <<j[i + 1], j[(i % outer) + 2]>>]
  IN ConnectPairs(w1, spokes \o ring)

RECURSIVE FirstBranchesDetached(_, _, _, _, _, _, _)
\* the first while loop without its connectJoints call (mutant)
FirstBranchesDetached(w, x, y, org, remainingJoints, branchIndex, chainLength) ==
  IF remainingJoints > 0 /\ branchIndex < chainLength
  THEN FirstBranchesDetached(
         CreateJoint(w, x + (branchIndex + 1) * 200, y - 200, org),
         x, y, org, remainingJoints - 1, branchIndex + 2, chainLength)
  ELSE w

RECURSIVE FirstBranches(_, _, _, _, _, _, _)
\* first while loop of createChainStructure: branches above every second
\* backbone joint
FirstBranches(w, x, y, org, remainingJoints, branchIndex, chainLength) ==
  IF remainingJoints > 0 /\ branchIndex < chainLength
  THEN LET baseJoint == w.entities[org].jointIds[branchIndex + 2]
           branchJoint == w.nextEntityId
           w1 == CreateJoint(w, x + (branchIndex + 1) * 200, y - 200, org)
           w2 == ConnectJoints(w1, baseJoint, branchJoint)
       IN FirstBranches(w2, x, y, org, remainingJoints - 1, branchIndex + 2,
                        chainLength)
  ELSE w

RECURSIVE SecondBranches(_, _, _, _, _)
\* second while loop of createChainStructure: a branch above each branch joint
SecondBranches(w, org, remainingJoints, branchIndex, chainLength) ==
  IF remainingJoints > 0
     /\ branchIndex < Len(w.entities[org].jointIds) - chainLength - 1
  THEN LET baseJoint == w.entities[org].jointIds[chainLength + 2 + branchIndex]
           base == w.entities[baseJoint].position
           branchJoint == w.nextEntityId
           w1 == CreateJoint(w, base[1], base[2] - 200, org)
           w2 == ConnectJoints(w1, baseJoint, branchJoint)
       IN SecondBranches(w2, org, remainingJoints - 1, branchIndex + 1, chainLength)
  ELSE w

\* EntityFactory.createChainStructure
CreateChainStructure(w, x, y, org, numJoints) ==
  LET chainLength == Min(5, numJoints - 1)
      w1 == CreateJointsAt(w, org,
              <<<<x, y>>>> \o [i \in 1..chainLength |-> <<x + i * 200, y>>])
      j == w1.entities[org].jointIds
      w2 == ConnectPairs(w1, [i \in 1..chainLength |-> <<j[i], j[i + 1]>>])
      remainingJoints == numJoints - Len(j)
      w3 == FirstBranches(w2, x, y, org, remainingJoints, 0, chainLength)
      remaining2 == numJoints - Len(w3.entities[org].jointIds)
  IN SecondBranches(w3, org, remaining2, 0, chainLength)

\* EntityFactory.createOrganism
CreateOrganism(w, x, y, numJoints) ==
  LET org == w.nextEntityId
      w1 == CreateEntity(w, [kind |-> "organism", jointIds |-> <<>>,
                             fitness |-> 0, foodEaten |-> 0])
  IN IF numJoints <= 3 THEN CreateTriangleStructure(w1, x, y, org)
     ELSE IF numJoints <= 5 THEN CreateStarStructure(w1, x, y, org, numJoints)
     ELSE CreateChainStructure(w1, x, y, org, numJoints)

\* EntityFactory.createOrganism of src/unnamed/part_017: joints on a circle of
\* radius 20, connected as a complete graph with unclamped rest lengths
CreateOrganismComplete(w, x, y, numJoints) ==
  LET org == w.nextEntityId
      w1 == CreateEntity(w, [kind |-> "organism", jointIds |-> <<>>,
                             fitness |-> 0, foodEaten |-> 0])
      w2 == CreateJointsAt(w1, org,
              <<<<x, y>>>> \o
              [i \in 1..Max(0, numJoints - 1) |-> OnCircle(x, y, i, numJoints, 20)])
      j == w2.entities[org].jointIds
      n == Len(j)
      RECURSIVE Connect(_, _, _)
      Connect(v, a, b) ==
        IF a > n THEN v
        ELSE IF b > n THEN Connect(v, a + 1, a + 2)
        ELSE LET restLength == DistanceTo(v.entities[j[a]].position,
                                          v.entities[j[b]].position)
             IN Connect([v EXCEPT
                  !.entities[j[a]].connections = Append(@, j[b]),
                  !.entities[j[a]].restLengths = (j[b] :> restLength) @@ @,
                  !.entities[j[b]].connections = Append(@, j[a]),
                  !.entities[j[b]].restLengths = (j[a] :> restLength) @@ @],
                  a, b + 1)
  IN Connect(w2, 1, 2)


(***************************************************************************)
(* FoodSystem (src/src/simulation/ecs/systems/FoodSystem.js).              *)
(***************************************************************************)
\* the test with <= in place of < (mutant)
WithinEatingDistanceInclusive(p, q) == DistanceTo(p, q) <= EATING_DISTANCE * 10

\* jointPosition.position.distanceTo(foodPosition.position) < EATING_DISTANCE
WithinEatingDistance(p, q) == DistanceTo(p, q) < EATING_DISTANCE * 10

\* the loop over organism.jointIds: some joint still in the world is close
\* enough to the food
CanEat(w, org, food) ==
  \E i \in 1..Len(w.entities[org].jointIds) :
    LET jointId == w.entities[org].jointIds[i]
    IN /\ jointId \in Ids(w)
       /\ WithinEatingDistance(w.entities[jointId].position,
                               w.entities[food].position)

\* the skip test without the list of marked entities (mutant)
NeverMarked(entitiesToRemove, foodId) == FALSE

\* entitiesToRemove.includes(foodEntity.id)
AlreadyMarked(entitiesToRemove, foodId) == Includes(entitiesToRemove, foodId)

\* a bonus that is taken instead of given (mutant)
SurvivalPenalty(fitness) == fitness - 1

\* fitness.fitness += 0.1
SurvivalBonus(fitness) == fitness + 1

\* body of the loop over foodEntities for one organism and one food
EatStep(s, org, food) ==
  IF AlreadyMarked(s.entitiesToRemove, food) THEN s
  ELSE IF CanEat(s.world, org, food)
  THEN [s EXCEPT !.world.entities[org].fitness = @ + FOOD_VALUE * 10,
                 !.world.entities[org].foodEaten = @ + 1,
                 !.entitiesToRemove = Append(@, food),
                 !.foodsEaten = @ + 1]
  ELSE s

RECURSIVE EatLoop(_, _, _)
EatLoop(s, org, foods) ==
  IF foods = <<>> THEN s ELSE EatLoop(EatStep(s, org, Head(foods)), org, Tail(foods))

\* body of the loop over organismEntities: survival bonus, then the foods
OrganismStep(s, org, foods) ==
  LET s1 == IF s.accumulatedTime > 1000
            THEN [s EXCEPT !.world.entities[org].fitness = SurvivalBonus(@),
                           !.accumulatedTime = 0]
            ELSE s
  IN EatLoop(s1, org, foods)

RECURSIVE OrganismLoop(_, _, _)
OrganismLoop(s, orgs, foods) ==
  IF orgs = <<>> THEN s
  ELSE OrganismLoop(OrganismStep(s, Head(orgs), foods), Tail(orgs), foods)

\* FoodSystem.update: the world, foodsEaten and accumulatedTime afterwards
FoodSystemUpdate(w, accumulated, deltaTime) ==
  LET s0 == [world |-> w, accumulatedTime |-> accumulated + deltaTime,
             entitiesToRemove |-> <<>>, foodsEaten |-> 0]
      s == OrganismLoop(s0, EntitiesWith(w, "organism"), EntitiesWith(w, "food"))
  IN [world |-> RemoveAll(s.world, s.entitiesToRemove),
      foodsEaten |-> s.foodsEaten,
      accumulatedTime |-> s.accumulatedTime]

(***************************************************************************)
(* EvolutionSystem (src/src/simulation/ecs/systems/EvolutionSystem.js).    *)
(***************************************************************************)
\* outcomes of Math.random() * CANVAS_WIDTH, Math.random() * CANVAS_HEIGHT used
\* for organisms
SpawnPoints == {<<0, 0>>}

\* populationSize and foodAmount values handed to the constructor and to
\* setParams, and amounts handed to replenishFood
PopulationSizes == {0, 1, 2}
FoodAmounts == {0, 1, 2}

\* outcomes of the same draw used for food
FoodPoints == {<<0, 0>>, <<400, 0>>}

\* outcomes of MIN_JOINT_COUNT + floor(random * (MAX - MIN + 1))
DrawnJointCounts == {MIN_JOINT_COUNT}

\* outcomes of (Math.random() * 40 - 20) for the two axes of a child position
ChildOffsets == {<<0, 0>>}

\* outcomes of Math.random() in selectParentWeighted, as <<numerator, denominator>>
EvolutionRandoms == {<<0, 4>>, <<1, 4>>, <<3, 4>>}

Fitness(w, org) == w.entities[org].fitness

\* the weight without the 0.1 floor (mutant)
WeightUnfloored(fitness) == fitness

\* Math.max(0.1, fitness)
Weight(fitness) == Max(1, fitness)

RECURSIVE TotalFitness(_)
TotalFitness(fits) ==
  IF fits = <<>> THEN 0 ELSE Weight(Head(fits)) + TotalFitness(Tail(fits))

RECURSIVE FirstReaching(_, _, _, _, _)
\* the selection loop: first index whose running total reaches
\* selectionPoint = random * totalFitness; the last index as the fallback
FirstReaching(fits, i, runningTotal, rnd, total) ==
  IF i > Len(fits) THEN Len(fits)
  ELSE LET running == runningTotal + Weight(fits[i])
       IN IF running * rnd[2] >= rnd[1] * total THEN i
          ELSE FirstReaching(fits, i + 1, running, rnd, total)

\* EvolutionSystem.selectParentWeighted on the list of fitness values: the
\* index (from 1) of the organism returned, 0 when it returns undefined
SelectParentWeighted(fits, rnd) ==
  LET totalFitness == TotalFitness(fits)
  IN IF totalFitness <= 0
     THEN LET index == (rnd[1] * Len(fits)) \div rnd[2]
          IN IF index < Len(fits) THEN index + 1 ELSE 0
     ELSE FirstReaching(fits, 1, 0, rnd, totalFitness)

RECURSIVE InsertByFitness(_, _, _)
InsertByFitness(w, sorted, org) ==
  IF sorted = <<>> THEN <<org>>
  ELSE IF Fitness(w, Head(sorted)) >= Fitness(w, org)
       THEN <<Head(sorted)>> \o InsertByFitness(w, Tail(sorted), org)
       ELSE <<org>> \o sorted

RECURSIVE SortByFitness(_, _, _)
\* organismEntities.sort((a, b) => fitnessB - fitnessA): descending, stable
SortByFitness(w, orgs, sorted) ==
  IF orgs = <<>> THEN sorted
  ELSE SortByFitness(w, Tail(orgs), InsertByFitness(w, sorted, Head(orgs)))

\* the survivors of createNextGeneration: the top slice of the ranked list.
\* The random additions need floor(n * 0.1) >= 1, that is ten organisms.
Survivors(ranked, generation) ==
  LET n == Len(ranked)
      numSurvivors == Max(2, IF generation <= 10 THEN (n * 7) \div 10 ELSE n \div 2)
  IN SubSeq(ranked, 1, Min(n, numSurvivors))

\* only the organisms are marked, their joints are kept (mutant)
EntitiesToRemoveOrganismsOnly(w) == EntitiesWith(w, "organism")

\* entitiesToRemove of createNextGeneration: every organism of the world and
\* every id in its jointIds
EntitiesToRemove(w) ==
  SortedSeq(OrganismIds(w) \cup
            UNION {SeqToSet(w.entities[o].jointIds) : o \in OrganismIds(w)})

\* EvolutionSystem.getOrganismPosition
GetOrganismPosition(w, org) ==
  LET live == {j \in SeqToSet(w.entities[org].jointIds) : j \in Ids(w)}
      RECURSIVE Sum(_, _)
      Sum(S, axis) == IF S = {} THEN 0
                      ELSE LET j == CHOOSE x \in S : TRUE
                           IN w.entities[j].position[axis] + Sum(S \ {j}, axis)
      count == Cardinality(live)
  IN IF count = 0 THEN <<0, 0>>
     ELSE <<Sum(live, 1) \div count, Sum(live, 2) \div count>>

\* the joint counts without the clamp (mutant)
ChildJointCountsUnclamped(n) == {n} \cup {n + d : d \in {-1, 0, 1}}

\* joint counts a child of a parent with n joints can get: n, or n + d with
\* d = floor(random * 3) - 1 clamped to [MIN_JOINT_COUNT, MAX_JOINT_COUNT]
ChildJointCounts(n) ==
  {n} \cup {Max(MIN_JOINT_COUNT, Min(MAX_JOINT_COUNT, n + d)) : d \in {-1, 0, 1}}

\* EvolutionSystem.reproduceOrganism: the worlds it can leave
ReproduceOrganism(w, parent) ==
  LET position == GetOrganismPosition(w, parent)
      parentJoints == Len(w.entities[parent].jointIds)
  IN {CreateOrganism(w,
        Max(100, Min(CANVAS_WIDTH * 10 - 100, position[1] + off[1])),
        Max(100, Min(CANVAS_HEIGHT * 10 - 100, position[2] + off[2])),
        n) :
      off \in ChildOffsets,
      n \in ChildJointCounts(parentJoints) \cap DrawnJointCounts}

RECURSIVE FillGeneration(_, _, _, _)
\* the while loop of createNextGeneration: ws are the worlds reached so far,
\* created the length of newGeneration
FillGeneration(ws, survivors, created, target) ==
  IF created >= target THEN ws
  ELSE FillGeneration(
         UNION {UNION {ReproduceOrganism(w, survivors[
                         SelectParentWeighted(
                           [k \in 1..Len(survivors) |-> Fitness(w, survivors[k])],
                           rnd)]) :
                       rnd \in EvolutionRandoms} :
                w \in ws},
         survivors, created + 1, target)

RECURSIVE InitializeFood(_, _)
\* EvolutionSystem.initializeFood / createFoodEntity: n foods at random places
InitializeFood(ws, n) ==
  IF n <= 0 THEN ws
  ELSE InitializeFood({CreateFood(w, p[1], p[2]) : w \in ws, p \in FoodPoints}, n - 1)

RECURSIVE SpawnOrganisms(_, _)
\* the loop of initializeGeneration
SpawnOrganisms(ws, n) ==
  IF n <= 0 THEN ws
  ELSE SpawnOrganisms({CreateOrganism(w, p[1], p[2], jointCount) :
                         w \in ws, p \in SpawnPoints, jointCount \in DrawnJointCounts},
                      n - 1)

\* createNextGeneration with the removal of the remaining food left out
\* (mutant)
NextGenerationWorldsKeepFood(w, generation, population) ==
  LET ranked == SortByFitness(w, EntitiesWith(w, "organism"), <<>>)
      survivors == Survivors(ranked, generation)
      old == EntitiesToRemove(w)
      elite == ReproduceOrganism(w, survivors[1])
      filled == FillGeneration(elite, survivors, 1, population)
  IN {RemoveAll(v, old) : v \in filled}

\* createNextGeneration from the elite copy on, for a world with organisms
NextGenerationWorlds(w, generation, population) ==
  LET ranked == SortByFitness(w, EntitiesWith(w, "organism"), <<>>)
      survivors == Survivors(ranked, generation)
      old == EntitiesToRemove(w)
      elite == ReproduceOrganism(w, survivors[1])
      filled == FillGeneration(elite, survivors, 1, population)
      cleaned == {RemoveAll(RemoveAll(v, old), EntitiesWith(v, "food")) : v \in filled}
  IN cleaned

(***************************************************************************)
(* Operations on the world: the host or a test calls them in any order.    *)
(***************************************************************************)
pipeIdle == /\ systems = <<>> /\ ran = <<>> /\ pjoints = <<>>
            /\ physicsFile = "" /\ pstale = FALSE
selIdle == selOrganisms = <<>> /\ selResult = -1
mutIdle == genetics = <<>> /\ gene = <<>> /\ mutations = 0
replayIdle == replica = <<>>
timerIdle ==
  /\ stateChangeTimer = {} /\ pendingTimers = {} /\ behaviorModes = {}
hostIdle ==
  /\ hostVariant = 0 /\ frameCount = 0 /\ generationEndCounter = 0
  /\ hostGeneration = 0 /\ hostTimer = 0 /\ hostOrganisms = 0
  /\ idleFrames = 0 /\ observed = <<>> /\ calls = 0
foodIdle == paramsChanged = FALSE
pauseIdle == hostWorld = <<>>
evoIdle == parents = <<>> /\ pauseIdle
moreIdle == stateJoints = <<>> /\ stateFile = "" /\ quota = 0 /\ evoIdle
restIdle == springs = <<>> /\ connectionFile = "" /\ moreIdle
lateIdle == body = <<>> /\ restIdle
extIdle == replayIdle /\ timerIdle /\ hostIdle /\ foodIdle /\ lateIdle

\* state after new World(), new FoodSystem(world) and
\* new EvolutionSystem(world, factory, foodAmount, populationSize, rate)
InitWorld ==
  /\ world = EmptyWorld
  /\ foodAmount \in FoodAmounts
  /\ populationSize \in PopulationSizes
  /\ generationCount = 0
  /\ foodsEaten = 0
  /\ accumulatedTime = 0
  /\ lastOp = "constructor"
  /\ thrown = FALSE
  /\ ticks = 0
  /\ contested = FALSE

Init == InitWorld /\ pipeIdle /\ selIdle /\ mutIdle /\ extIdle

\* EvolutionSystem.setParams: the host hands over a new population size and
\* the food amount in effect
SetParams ==
  /\ \E f \in {foodAmount}, p \in PopulationSizes :
       /\ foodAmount' = f
       /\ populationSize' = p
  /\ lastOp' = "setParams"
  /\ thrown' = FALSE
  /\ UNCHANGED <<world, generationCount, foodsEaten, accumulatedTime, ticks, contested>>
  /\ UNCHANGED <<pipeVars, selVars, mutVars, extVars>>

\* EvolutionSystem.initializeGeneration
InitializeGeneration ==
  /\ world' \in InitializeFood(SpawnOrganisms({Clear(world)}, populationSize),
                               foodAmount)
  /\ generationCount' = 0
  /\ lastOp' = "initializeGeneration"
  /\ thrown' = FALSE
  /\ UNCHANGED <<foodAmount, populationSize, foodsEaten, accumulatedTime, ticks,
                 contested>>
  /\ UNCHANGED <<pipeVars, selVars, mutVars, extVars>>

\* replenishFood without the cap at foodAmount (mutant)
FoodToAddUncapped(amount, limit, currentFoodCount) == amount

\* const foodToAdd = Math.min(amount, this.foodAmount - currentFoodCount)
FoodToAdd(amount, limit, currentFoodCount) == Min(amount, limit - currentFoodCount)

\* EvolutionSystem.replenishFood
ReplenishFood ==
  /\ \E amount \in FoodAmounts \ {0} :
       LET currentFoodCount == Cardinality(FoodIds(world))
           foodToAdd == FoodToAdd(amount, foodAmount, currentFoodCount)
       IN world' \in InitializeFood({world}, foodToAdd)
  /\ lastOp' = "replenishFood"
  /\ thrown' = FALSE
  /\ UNCHANGED <<foodAmount, populationSize, generationCount, foodsEaten,
                 accumulatedTime, ticks, contested>>
  /\ UNCHANGED <<pipeVars, selVars, mutVars, extVars>>

\* EvolutionSystem.createNextGeneration.  With no organism in the world and
\* populationSize >= 1, selectParentWeighted([]) returns undefined and
\* reproduceOrganism(undefined) throws a TypeError before anything is removed.
CreateNextGeneration ==
  /\ generationCount < MaxGenerations
  /\ generationCount' = generationCount + 1
  /\ lastOp' = "createNextGeneration"
  /\ IF OrganismIds(world) = {} /\ populationSize >= 1
     THEN /\ thrown' = TRUE
          /\ world' = world
     ELSE /\ thrown' = FALSE
          /\ IF OrganismIds(world) = {}
             THEN world' \in InitializeFood(
                               {RemoveAll(world, EntitiesWith(world, "food"))},
                               foodAmount)
             ELSE world' \in InitializeFood(
                               NextGenerationWorlds(world, generationCount',
                                                    populationSize),
                               foodAmount)
  /\ UNCHANGED <<foodAmount, populationSize, foodsEaten, accumulatedTime, ticks,
                 contested>>
  /\ UNCHANGED <<pipeVars, selVars, mutVars, extVars>>

\* displacements of one joint in one tick (tenths of a pixel)
MoveDeltas == {<<20, 0>>}

\* simulation deltaTime values handed to World.update (ms)
DeltaTimes == {100, 1100}

\* PhysicsSystem boundary check on a position
ClampToCanvas(p) ==
  <<Max(0, Min(CANVAS_WIDTH * 10, p[1])), Max(0, Min(CANVAS_HEIGHT * 10, p[2]))>>

\* the joints that move noticeably in a tick: the second joint of an organism
Movers(w) == {w.entities[o].jointIds[2] : o \in OrganismIds(w)}

\* the worlds StateSystem, JointConnectionSystem and PhysicsSystem can leave in
\* one tick, at the resolution of this model: no joint, or one joint, has
\* moved by a noticeable amount
MovedWorlds(w) ==
  {w} \cup {[w EXCEPT !.entities[j].position = ClampToCanvas(<<@[1] + d[1], @[2] + d[2]>>)] :
              j \in Movers(w), d \in MoveDeltas}

\* some food is within reach of two organisms
Contested(w) ==
  \E f \in FoodIds(w) : \E o1, o2 \in OrganismIds(w) :
    o1 # o2 /\ CanEat(w, o1, f) /\ CanEat(w, o2, f)

\* World.update(deltaTime) as far as positions, food and fitness go
Tick ==
  /\ ticks < MaxTicks
  /\ \E moved \in MovedWorlds(world), deltaTime \in DeltaTimes :
       LET r == FoodSystemUpdate(moved, accumulatedTime, deltaTime)
       IN /\ world' = r.world
          /\ foodsEaten' = r.foodsEaten
          /\ accumulatedTime' = r.accumulatedTime
          /\ contested' = Contested(moved)
  /\ ticks' = ticks + 1
  /\ lastOp' = "tick"
  /\ thrown' = FALSE
  /\ UNCHANGED <<foodAmount, populationSize, generationCount>>
  /\ UNCHANGED <<pipeVars, selVars, mutVars, extVars>>

Next ==
  \/ SetParams
  \/ InitializeGeneration
  \/ ReplenishFood
  \/ CreateNextGeneration
  \/ Tick

Spec == Init /\ [][Next]_vars

-----------------------------------------------------------------------------
\* Properties of the generation lifecycle (specification Spec)

RECURSIVE SumFoodEaten(_, _)
\* FitnessComponent.foodEaten summed over the organisms orgs of world w
SumFoodEaten(w, orgs) ==
  IF orgs = {} THEN 0
  ELSE LET o == CHOOSE x \in orgs : TRUE
       IN w.entities[o].foodEaten + SumFoodEaten(w, orgs \ {o})

\* some joint of organism org in world w is closer than EATING_DISTANCE to
\* the point p
JointNear(w, org, p) ==
  \E j \in SeqToSet(w.entities[org].jointIds) :
    /\ j \in Ids(w)
    /\ DistanceTo(w.entities[j].position, p) < EATING_DISTANCE * 10

\* C1: after any createNextGeneration with populationSize >= 1 the world
\* holds exactly populationSize organism entities, however many organisms
\* the outgoing generation had.
C1_PopulationRestored ==
  (lastOp = "createNextGeneration" /\ populationSize >= 1)
    => Cardinality(OrganismIds(world)) = populationSize

\* C2: between two generation boundaries no step (tick, replenishFood,
\* setParams) lowers the fitness of an organism, and every organism stays
\* in the world.
C2_FitnessNonDecreasing ==
  [][lastOp' \notin {"initializeGeneration", "createNextGeneration"}
       => \A o \in OrganismIds(world) :
            /\ o \in OrganismIds(world')
            /\ Fitness(world', o) >= Fitness(world, o)]_vars

\* a replenishFood call has run after some organism had earned fitness
C2_Witness ==
  /\ lastOp = "replenishFood"
  /\ \E o \in OrganismIds(world) : Fitness(world, o) > 0

\* C3: in one FoodSystem.update every food entity is consumed at most once:
\* the returned count equals the number of food entities removed and the
\* total increase of foodEaten; with no food it returns 0 and removes
\* nothing.
C3_ConsumedOnce ==
  [][lastOp' = "tick"
       => /\ FoodIds(world') \subseteq FoodIds(world)
          /\ foodsEaten' = Cardinality(FoodIds(world) \ FoodIds(world'))
          /\ foodsEaten' = SumFoodEaten(world', OrganismIds(world'))
                             - SumFoodEaten(world, OrganismIds(world))
          /\ (FoodIds(world) = {} => foodsEaten' = 0 /\ Ids(world') = Ids(world))]_vars

\* a food that two organisms could reach has been eaten, once
C3_Witness ==
  /\ lastOp = "tick"
  /\ contested
  /\ foodsEaten = 1
  /\ FoodIds(world) = {}
  /\ Cardinality(OrganismIds(world)) = 2

C6_JointsAndOrganismsAgree ==
  /\ \A j \in JointIds(world) :
       /\ world.entities[j].organismId \in OrganismIds(world)
       /\ Includes(world.entities[world.entities[j].organismId].jointIds, j)
  /\ \A o \in OrganismIds(world) :
       /\ world.entities[o].jointIds # <<>>
       /\ \A k \in 1..Len(world.entities[o].jointIds) :
            world.entities[o].jointIds[k] \in JointIds(world)

\* a generation has been replaced by its children
C6_Witness ==
  /\ lastOp = "createNextGeneration"
  /\ ~thrown
  /\ Cardinality(OrganismIds(world)) >= 2
  /\ JointIds(world) # {}

-----------------------------------------------------------------------------
(***************************************************************************)
(* EntityFactory on its own (specification SpecFactory): createOrganism of *)
(* EntityFactory.js and of the older factory in src/unnamed/part_017,      *)
(* called with any joint count.                                            *)
(***************************************************************************)
worldIdle ==
  /\ foodAmount = 0 /\ populationSize = 0 /\ generationCount = 0
  /\ foodsEaten = 0 /\ accumulatedTime = 0 /\ thrown = FALSE /\ ticks = 0
  /\ contested = FALSE

\* positions handed to createOrganism
FactoryPoints == {<<1000, 1000>>}

InitFactory ==
  /\ world = EmptyWorld
  /\ lastOp = "constructor"
  /\ worldIdle /\ pipeIdle /\ selIdle /\ mutIdle /\ extIdle

\* EntityFactory.createOrganism(x, y, numJoints)
FactoryCreateOrganism ==
  /\ Cardinality(OrganismIds(world)) < MaxFactoryCalls
  /\ \E p \in FactoryPoints, numJoints \in 0..MaxFactoryJoints :
       world' = CreateOrganism(world, p[1], p[2], numJoints)
  /\ lastOp' = "createOrganism"
  /\ UNCHANGED <<foodAmount, populationSize, generationCount, foodsEaten,
                 accumulatedTime, thrown, ticks, contested>>
  /\ UNCHANGED <<pipeVars, selVars, mutVars, extVars>>

\* createOrganism(x, y, numJoints) of src/unnamed/part_017
FactoryCreateOrganismComplete ==
  /\ Cardinality(OrganismIds(world)) < MaxFactoryCalls
  /\ \E p \in FactoryPoints, numJoints \in 0..MaxFactoryJoints :
       world' = CreateOrganismComplete(world, p[1], p[2], numJoints)
  /\ lastOp' = "createOrganismComplete"
  /\ UNCHANGED <<foodAmount, populationSize, generationCount, foodsEaten,
                 accumulatedTime, thrown, ticks, contested>>
  /\ UNCHANGED <<pipeVars, selVars, mutVars, extVars>>

NextFactory ==
  \/ FactoryCreateOrganism
  \/ FactoryCreateOrganismComplete

SpecFactory == InitFactory /\ [][NextFactory]_vars

\* C5: after any createOrganism call, for all joints A and B: B is in
\* A.connections iff A is in B.connections, and then A.restLengths[B]
\* equals B.restLengths[A].
C5_ConnectionsSymmetric ==
  \A a \in JointIds(world), b \in JointIds(world) :
    /\ Includes(world.entities[a].connections, b)
         <=> Includes(world.entities[b].connections, a)
    /\ Includes(world.entities[a].connections, b)
         => /\ b \in DOMAIN world.entities[a].restLengths
            /\ a \in DOMAIN world.entities[b].restLengths
            /\ world.entities[a].restLengths[b] = world.entities[b].restLengths[a]

\* a chain with a branch and a complete graph, seven joints each, have been
\* built in one world
C5_Witness ==
  /\ world.nextEntityId > 0
  /\ \E o \in OrganismIds(world) :
       /\ Len(world.entities[o].jointIds) = 7
       /\ \E j \in SeqToSet(world.entities[o].jointIds) :
            Len(world.entities[j].connections) = 1
  /\ \E o \in OrganismIds(world) :
       /\ Len(world.entities[o].jointIds) = 7
       /\ \A j \in SeqToSet(world.entities[o].jointIds) :
            Len(world.entities[j].connections) = 6

RECURSIVE ReachableFrom(_, _)
\* the joints reached from the set seen by following connections
ReachableFrom(w, seen) ==
  LET more == seen \cup
                UNION {SeqToSet(w.entities[j].connections) \cap Ids(w) : j \in seen}
  IN IF more = seen THEN seen ELSE ReachableFrom(w, more)

\* C18: every organism createOrganism built has at least one joint, its
\* joints are connected to each other through connections, and no connection
\* leads to the joint itself or to a joint of another organism.
C18_OrganismConnected ==
  \A o \in OrganismIds(world) :
    LET joints == SeqToSet(world.entities[o].jointIds)
    IN /\ Len(world.entities[o].jointIds) >= 1
       /\ joints \subseteq JointIds(world)
       /\ \A j \in joints :
            /\ SeqToSet(world.entities[j].connections) \subseteq joints \ {j}
            /\ ReachableFrom(world, {j}) = joints

\* a chain of ten joints whose last joint hangs on a branch joint (second
\* level), next to a star of four joints
C18_Witness ==
  /\ \E o \in OrganismIds(world) :
       LET j == world.entities[o].jointIds
       IN /\ Len(j) = 10
          /\ world.entities[j[10]].connections = <<j[7]>>
  /\ \E o \in OrganismIds(world) :
       LET j == world.entities[o].jointIds
       IN /\ Len(j) = 4
          /\ Len(world.entities[j[1]].connections) = 3

-----------------------------------------------------------------------------
(***************************************************************************)
(* selectParentWeighted on its own (specification SpecSelect): the list    *)
(* of fitness values is drawn at the start, each step is one call.         *)
(***************************************************************************)
\* fitness values of the organisms handed over (tenths): none, one survival
\* bonus, one food
SelectFitnesses == {0, 1, FOOD_VALUE * 10}

\* outcomes of Math.random() for a list of total weight total: the points
\* k / (2 * total), k = 0 .. 2 * total - 1, so that selectionPoint falls on
\* and strictly between the running totals
SelectRandoms(total) == {<<k, 2 * Max(1, total)>> : k \in 0..(2 * Max(1, total) - 1)}

\* the outcomes that lie strictly between two grid points of the weights: an
\* index returned for one of them is returned on an interval of outcomes
InteriorRandoms(total) == {rnd \in SelectRandoms(total) : rnd[1] % 2 = 1}

InitSelect ==
  /\ selOrganisms \in UNION {[1..n -> SelectFitnesses] : n \in 1..MaxSelectLen}
  /\ selResult = -1
  /\ world = EmptyWorld
  /\ lastOp = "constructor"
  /\ worldIdle /\ pipeIdle /\ mutIdle /\ extIdle

\* one call of EvolutionSystem.selectParentWeighted(organisms)
SelectParent ==
  /\ \E rnd \in SelectRandoms(TotalFitness(selOrganisms)) :
       selResult' = SelectParentWeighted(selOrganisms, rnd)
  /\ UNCHANGED <<selOrganisms, worldVars, pipeVars, mutVars, extVars>>

NextSelect == SelectParent

SpecSelect == InitSelect /\ [][NextSelect]_vars

\* C8: for every non-empty list with non-negative fitness values and every
\* RNG outcome selectParentWeighted returns an element of the list, and
\* every element is returned on a set of outcomes of nonzero measure.
C8_SelectionTotal ==
  /\ selResult # -1 => selResult \in 1..Len(selOrganisms)
  /\ \A i \in 1..Len(selOrganisms) :
       \E rnd \in InteriorRandoms(TotalFitness(selOrganisms)) :
         SelectParentWeighted(selOrganisms, rnd) = i

\* the last of several organisms, all of fitness 0, has been returned
C8_Witness ==
  /\ Len(selOrganisms) >= 2
  /\ \A i \in 1..Len(selOrganisms) : selOrganisms[i] = 0
  /\ selResult = Len(selOrganisms)

-----------------------------------------------------------------------------
(***************************************************************************)
(* GeneticComponent.mutate and Gene.mutate on their own (specification     *)
(* SpecMutate).  Fields, rates and random draws are in thousandths.  The   *)
(* binary joint and limb patterns of GeneticComponent are left out.        *)
(***************************************************************************)
\* mutation rates handed to mutate: 0, 0.1, 5
MutationRates == {0, 100, 5000}

\* outcomes of (Math.random() * 2 - 1), one per mutated field of a call:
\* all lowest, all zero, all highest, alternating
GeneticDraws == {<<-1000, -1000>>, <<0, 0>>, <<999, 999>>, <<999, -1000>>}
GeneDraws == {<<-1000, -1000, -1000, -1000>>, <<0, 0, 0, 0>>,
              <<999, 999, 999, 999>>, <<999, -1000, 999, -1000>>}

\* components handed to the first mutate: the ends and the middle of the
\* documented ranges
GeneticStarts ==
  {[patternSpeed |-> ps, bodyPlanSeed |-> seed] :
     ps \in {200, 1000, 2000}, seed \in {0, 500, 1000}}
GeneStarts ==
  {[sensorDistance |-> 100000, moveThreshold |-> 500, anchorThreshold |-> 200,
    anchorRatio |-> 300],
   [sensorDistance |-> 10000, moveThreshold |-> 100, anchorThreshold |-> 100,
    anchorRatio |-> 100],
   [sensorDistance |-> 200000, moveThreshold |-> 900, anchorThreshold |-> 900,
    anchorRatio |-> 700]}

\* GeneticComponent.mutate without the Math.max / Math.min lines (mutant)
GeneticComponentMutateUnclamped(g, rate, draw) ==
  [patternSpeed |-> g.patternSpeed + (draw[1] * rate) \div 1000,
   bodyPlanSeed |-> g.bodyPlanSeed + (draw[2] * rate * 2) \div 10000]

\* GeneticComponent.mutate(rate): patternSpeed and bodyPlanSeed of the copy
GeneticComponentMutate(g, rate, draw) ==
  LET newPatternSpeed == g.patternSpeed + (draw[1] * rate) \div 1000
      newBodyPlanSeed == g.bodyPlanSeed + (draw[2] * rate * 2) \div 10000
  IN [patternSpeed |-> Max(200, Min(2000, newPatternSpeed)),
      bodyPlanSeed |-> Max(0, Min(1000, newBodyPlanSeed))]

\* Gene.mutate(rate)
GeneMutate(g, rate, draw) ==
  LET sensorDistance == g.sensorDistance + (draw[1] * rate * 50) \div 1000
      moveThreshold == g.moveThreshold + (draw[2] * rate * 3) \div 10000
      anchorThreshold == g.anchorThreshold + (draw[3] * rate * 3) \div 10000
      anchorRatio == g.anchorRatio + (draw[4] * rate * 2) \div 10000
  IN [sensorDistance |-> Max(10000, Min(200000, sensorDistance)),
      moveThreshold |-> Max(100, Min(900, moveThreshold)),
      anchorThreshold |-> Max(100, Min(900, anchorThreshold)),
      anchorRatio |-> Max(100, Min(700, anchorRatio))]

InitMutate ==
  /\ genetics \in GeneticStarts
  /\ gene \in GeneStarts
  /\ mutations = 0
  /\ world = EmptyWorld
  /\ lastOp = "constructor"
  /\ worldIdle /\ pipeIdle /\ selIdle /\ extIdle

\* genetics = genetics.mutate(rate), as reproduceOrganism does
MutateGenetics ==
  /\ mutations < MaxMutations
  /\ \E rate \in MutationRates, draw \in GeneticDraws :
       genetics' = GeneticComponentMutate(genetics, rate, draw)
  /\ mutations' = mutations + 1
  /\ UNCHANGED <<gene, worldVars, pipeVars, selVars, extVars>>

\* gene = gene.mutate(rate)
MutateGene ==
  /\ mutations < MaxMutations
  /\ \E rate \in MutationRates, draw \in GeneDraws :
       gene' = GeneMutate(gene, rate, draw)
  /\ mutations' = mutations + 1
  /\ UNCHANGED <<genetics, worldVars, pipeVars, selVars, extVars>>

NextMutate ==
  \/ MutateGenetics
  \/ MutateGene

SpecMutate == InitMutate /\ [][NextMutate]_vars

\* C9: after any chain of mutate calls, with any rate >= 0 and any draws,
\* patternSpeed is in [0.2, 2.0], bodyPlanSeed in [0, 1], sensorDistance in
\* [10, 200], moveThreshold and anchorThreshold in [0.1, 0.9] and anchorRatio
\* in [0.1, 0.7].
C9_FieldsWithinRanges ==
  /\ genetics.patternSpeed \in 200..2000
  /\ genetics.bodyPlanSeed \in 0..1000
  /\ gene.sensorDistance \in 10000..200000
  /\ gene.moveThreshold \in 100..900
  /\ gene.anchorThreshold \in 100..900
  /\ gene.anchorRatio \in 100..700

\* both objects have been mutated and clamps of both have cut a value off
C9_Witness ==
  /\ mutations = 2
  /\ genetics = [patternSpeed |-> 200, bodyPlanSeed |-> 480]
  /\ gene = [sensorDistance |-> 200000, moveThreshold |-> 100,
             anchorThreshold |-> 900, anchorRatio |-> 100]

-----------------------------------------------------------------------------
(***************************************************************************)
(* The per-tick pipeline (specification SpecPipeline): World.update runs   *)
(* the registered systems in order on two connected joints of one          *)
(* organism.  Forces, velocities and positions are in hundredths; the      *)
(* tick's deltaTime is PipelineDelta ms.  ran is the position of           *)
(* World.update in its loop over the systems; timers fire between ticks.   *)
(***************************************************************************)
\* the two registrations of useECSSimulation.js
HostOrder == <<"state", "connections", "physics", "food", "render">>
HostOrderSecond == <<"state", "physics", "connections", "food", "render">>

\* the PhysicsSystem sources of the repository modelled here
PhysicsFiles == {"PhysicsSystem.js", "part_016"}

PipelineDelta == 100

\* outcomes of the Math.random() calls StateSystem.update makes for one
\* joint: the joint decides to move or to anchor, temporaryStateChange
\* ignores the change or inverts it, the velocity is replaced
StateDraws ==
  {[shouldAnchor |-> FALSE, ignore |-> FALSE, opposite |-> FALSE, teleport |-> FALSE],
   [shouldAnchor |-> TRUE, ignore |-> FALSE, opposite |-> FALSE, teleport |-> FALSE],
   [shouldAnchor |-> FALSE, ignore |-> FALSE, opposite |-> TRUE, teleport |-> FALSE],
   [shouldAnchor |-> FALSE, ignore |-> TRUE, opposite |-> FALSE, teleport |-> FALSE],
   [shouldAnchor |-> FALSE, ignore |-> FALSE, opposite |-> FALSE, teleport |-> TRUE]}

\* moveDirection * forceMagnitude of StateSystem, the teleport velocity, the
\* force JointConnectionSystem adds to a free joint, the jitter PhysicsSystem
\* adds: one outcome each
StateForce == <<1000, 0>>
TeleportVelocity == <<5000, 0>>
ConnectionForce == <<-500, 0>>
Jitter == <<10, 0>>

InitialJoints ==
  [j \in {1, 2} |->
     [isAnchored |-> FALSE,
      position |-> IF j = 1 THEN <<40000, 25000>> ELSE <<43000, 25000>>,
      velocity |-> <<0, 0>>,
      force |-> <<0, 0>>,
      forceTick |-> 0,          \* tick in which the pending force was written
      stateChangeTimer |-> FALSE,  \* StateSystem.stateChangeTimer[id]
      pendingFlips |-> 0]]      \* flip-back timeouts of JointConnectionSystem

InitPipeline ==
  /\ systems \in {HostOrder, HostOrderSecond}
  /\ physicsFile \in PhysicsFiles
  /\ ran = <<>>
  /\ pjoints = InitialJoints
  /\ pstale = FALSE
  /\ world = EmptyWorld
  /\ lastOp = "constructor"
  /\ worldIdle /\ selIdle /\ mutIdle /\ extIdle

\* World.update is between two ticks
BetweenTicks == ran = <<>> \/ Len(ran) = Len(systems)

\* the system World.update calls next
NextSystem == IF BetweenTicks THEN systems[1] ELSE systems[Len(ran) + 1]

\* bookkeeping of one step of the loop of World.update
Advance(name) ==
  /\ NextSystem = name
  /\ IF BetweenTicks
     THEN /\ ticks < MaxPipelineTicks
          /\ ticks' = ticks + 1
          /\ ran' = <<name>>
     ELSE /\ ticks' = ticks
          /\ ran' = Append(ran, name)
  /\ lastOp' = name
  /\ UNCHANGED <<world, foodAmount, populationSize, generationCount, foodsEaten,
                 accumulatedTime, thrown, contested, systems, physicsFile>>
  /\ UNCHANGED <<selVars, mutVars, extVars>>

AddVec(a, b) == <<a[1] + b[1], a[2] + b[2]>>

\* physics.force = physics.force.add(f), remembering the tick of the write
AddForce(joint, f, tick) ==
  [joint EXCEPT !.force = AddVec(@, f),
                !.forceTick = IF @ = 0 THEN tick ELSE @]

\* StateSystem.update for one joint with the draws d
StateSystemJoint(joint, d, tick) ==
  IF joint.stateChangeTimer THEN joint
  ELSE LET pushed == IF d.shouldAnchor THEN joint
                     ELSE AddForce(joint, StateForce, tick)
           moved == IF ~d.shouldAnchor /\ d.teleport
                    THEN [pushed EXCEPT !.velocity = TeleportVelocity]
                    ELSE pushed
           anchorState == IF d.opposite THEN ~d.shouldAnchor ELSE d.shouldAnchor
       IN IF d.ignore THEN moved
          ELSE [moved EXCEPT !.isAnchored = anchorState,
                             !.stateChangeTimer = TRUE]

\* JointConnectionSystem.update: every free joint gets the random and spring
\* forces; then the joint flip (0 for none) has its anchor state inverted and
\* a timeout scheduled that inverts it again
JointConnectionSystemJoints(joints, flip, tick) ==
  [j \in DOMAIN joints |->
     LET forced == IF joints[j].isAnchored THEN joints[j]
                   ELSE AddForce(joints[j], ConnectionForce, tick)
     IN IF j = flip
        THEN [forced EXCEPT !.isAnchored = ~@, !.pendingFlips = @ + 1]
        ELSE forced]

\* the boundary checks of PhysicsSystem on one axis: <<coordinate, velocity>>
Bounce(c, v, limit, restitution) ==
  IF c < 0 THEN <<0, (v * (0 - restitution)) \div 100>>
  ELSE IF c > limit THEN <<limit, (v * (0 - restitution)) \div 100>>
  ELSE <<c, v>>

ScaleVec(v, num, den) == <<(v[1] * num) \div den, (v[2] * num) \div den>>

\* the anchored branch of src/unnamed/part_016: the force is kept (also the
\* mutant of AnchoredJoint)
AnchoredJointKeepsForce(joint) == [joint EXCEPT !.velocity = <<0, 0>>]

\* the anchored branch of PhysicsSystem.js
AnchoredJoint(joint) ==
  [joint EXCEPT !.velocity = <<0, 0>>, !.force = <<0, 0>>, !.forceTick = 0]

\* PhysicsSystem.js, update for one joint
PhysicsJoint(joint, deltaTime) ==
  IF joint.isAnchored THEN AnchoredJoint(joint)
  ELSE LET scaledDelta == Max(deltaTime, 50)
           force == AddVec(joint.force, Jitter)
           accelerated == AddVec(joint.velocity, ScaleVec(force, scaledDelta * 15, 10000))
           damped == ScaleVec(accelerated, JOINT_DAMPING, 100)
           currentSpeed == ISqrt(damped[1] * damped[1] + damped[2] * damped[2])
           maxVelocity == 800
           capped == IF currentSpeed > maxVelocity
                     THEN ScaleVec(damped, maxVelocity, currentSpeed)
                     ELSE damped
           moved == AddVec(joint.position, ScaleVec(capped, scaledDelta * 12, 10000))
           bx == Bounce(moved[1], capped[1], CANVAS_WIDTH * 100, 80)
           by == Bounce(moved[2], capped[2], CANVAS_HEIGHT * 100, 80)
       IN [joint EXCEPT !.position = <<bx[1], by[1]>>,
                        !.velocity = <<bx[2], by[2]>>,
                        !.force = <<0, 0>>,
                        !.forceTick = 0]

\* src/unnamed/part_016, update for one joint
PhysicsJointOlder(joint) ==
  IF joint.isAnchored THEN AnchoredJointKeepsForce(joint)
  ELSE LET accelerated == AddVec(joint.velocity, joint.force)
           damped == ScaleVec(accelerated, JOINT_DAMPING, 100)
           moved == AddVec(joint.position, damped)
           bx == Bounce(moved[1], damped[1], CANVAS_WIDTH * 100, 50)
           by == Bounce(moved[2], damped[2], CANVAS_HEIGHT * 100, 50)
       IN [joint EXCEPT !.position = <<bx[1], by[1]>>,
                        !.velocity = <<bx[2], by[2]>>,
                        !.force = <<0, 0>>,
                        !.forceTick = 0]

\* StateSystem.update(deltaTime)
StateSystemUpdate ==
  /\ Advance("state")
  /\ \E d \in [DOMAIN pjoints -> StateDraws] :
       pjoints' = [j \in DOMAIN pjoints |-> StateSystemJoint(pjoints[j], d[j], ticks')]
  /\ UNCHANGED pstale

\* JointConnectionSystem.update(deltaTime)
JointConnectionSystemUpdate ==
  /\ Advance("connections")
  /\ \E flip \in {0} \cup {j \in DOMAIN pjoints : pjoints[j].pendingFlips < MaxPendingFlips} :
       pjoints' = JointConnectionSystemJoints(pjoints, flip, ticks')
  /\ UNCHANGED pstale

\* PhysicsSystem.update(deltaTime)
PhysicsSystemUpdate ==
  /\ Advance("physics")
  /\ pjoints' = [j \in DOMAIN pjoints |->
                   IF physicsFile = "part_016" THEN PhysicsJointOlder(pjoints[j])
                   ELSE PhysicsJoint(pjoints[j], PipelineDelta)]
  /\ pstale' = (pstale \/ \E j \in DOMAIN pjoints :
                             /\ ~pjoints[j].isAnchored
                             /\ pjoints[j].forceTick # 0
                             /\ pjoints[j].forceTick < ticks')

\* FoodSystem.update(deltaTime): no joint is changed
FoodSystemStep ==
  /\ Advance("food")
  /\ UNCHANGED <<pjoints, pstale>>

\* RenderSystem.update(deltaTime): draws, changes nothing
RenderSystemUpdate ==
  /\ Advance("render")
  /\ UNCHANGED <<pjoints, pstale>>

\* the setTimeout callback of StateSystem.temporaryStateChange for joint j
StateTimerFires ==
  /\ BetweenTicks
  /\ \E j \in DOMAIN pjoints :
       /\ pjoints[j].stateChangeTimer
       /\ pjoints' = [pjoints EXCEPT ![j].stateChangeTimer = FALSE]
  /\ lastOp' = "stateTimer"
  /\ UNCHANGED <<world, foodAmount, populationSize, generationCount, foodsEaten,
                 accumulatedTime, thrown, ticks, contested, systems, ran,
                 physicsFile, pstale>>
  /\ UNCHANGED <<selVars, mutVars, extVars>>

\* the setTimeout callback of JointConnectionSystem.update for joint j
FlipTimerFires ==
  /\ BetweenTicks
  /\ \E j \in DOMAIN pjoints :
       /\ pjoints[j].pendingFlips > 0
       /\ pjoints' = [pjoints EXCEPT ![j].isAnchored = ~@,
                                     ![j].pendingFlips = @ - 1]
  /\ lastOp' = "flipTimer"
  /\ UNCHANGED <<world, foodAmount, populationSize, generationCount, foodsEaten,
                 accumulatedTime, thrown, ticks, contested, systems, ran,
                 physicsFile, pstale>>
  /\ UNCHANGED <<selVars, mutVars, extVars>>

NextPipeline ==
  \/ StateSystemUpdate
  \/ JointConnectionSystemUpdate
  \/ PhysicsSystemUpdate
  \/ FoodSystemStep
  \/ RenderSystemUpdate
  \/ StateTimerFires
  \/ FlipTimerFires

SpecPipeline == InitPipeline /\ [][NextPipeline]_vars

\* the order the specification of the program gives for a tick
ClaimedOrder == <<"state", "connections", "physics", "food">>

\* C7: a joint that is anchored when PhysicsSystem.update runs has, after the
\* update, velocity (0,0), force (0,0) and its position unchanged, whatever
\* force and velocity it carried on entry.
C7_AnchoredJointFrozen ==
  [][lastOp' = "physics"
       => \A j \in DOMAIN pjoints :
            pjoints[j].isAnchored
              => /\ pjoints'[j].velocity = <<0, 0>>
                 /\ pjoints'[j].force = <<0, 0>>
                 /\ pjoints'[j].position = pjoints[j].position]_vars

\* C10: every tick runs each registered system once in registration order,
\* that order is state, connections, physics, food, and PhysicsSystem
\* integrates no force written in an earlier tick.
C10_OrderAndSameTickForces ==
  /\ Len(ran) <= Len(systems)
  /\ \A i \in 1..Len(ran) : ran[i] = systems[i]
  /\ \A i \in 1..Min(Len(ran), Len(ClaimedOrder)) : ran[i] = ClaimedOrder[i]
  /\ ~pstale

\* |x| + |y| of a force
ForceSize(f) ==
  (IF f[1] < 0 THEN 0 - f[1] ELSE f[1]) + (IF f[2] < 0 THEN 0 - f[2] ELSE f[2])

\* the force JointConnectionSystem.update adds to joint j of joints
ConnectionForceOn(joints, j) ==
  LET after == JointConnectionSystemJoints(joints, 0, 1)[j].force
  IN <<after[1] - joints[j].force[1], after[2] - joints[j].force[2]>>

\* C20: in a tick in which no joint of the organism is anchored, the force
\* JointConnectionSystem gives each joint is smaller than the force the same
\* joint gets, at the same positions, when another joint of the organism is
\* anchored.
C20_UnanchoredForceDamped ==
  [][(lastOp' = "connections" /\ \A k \in DOMAIN pjoints : ~pjoints[k].isAnchored)
       => \A j \in DOMAIN pjoints : \A k \in DOMAIN pjoints \ {j} :
            ForceSize(<<pjoints'[j].force[1] - pjoints[j].force[1],
                        pjoints'[j].force[2] - pjoints[j].force[2]>>)
              < ForceSize(ConnectionForceOn(
                            [pjoints EXCEPT ![k].isAnchored = TRUE], j))]_vars

-----------------------------------------------------------------------------
(***************************************************************************)
(* Further properties of the generation boundary (specification Spec).     *)
(***************************************************************************)
\* C12: when createNextGeneration returns, no entity that was in the world
\* before the call is still there, the world holds exactly foodAmount food
\* entities, and every organism has fitness 0 and foodEaten 0.
C12_OldGenerationReplaced ==
  [][(lastOp' = "createNextGeneration" /\ ~thrown')
       => /\ Ids(world) \cap Ids(world') = {}
          /\ Cardinality(FoodIds(world')) = foodAmount'
          /\ \A o \in OrganismIds(world') :
               /\ world'.entities[o].fitness = 0
               /\ world'.entities[o].foodEaten = 0]_vars

\* a generation that was ticked and fed has been replaced by two fresh
\* organisms and two fresh foods
C12_Witness ==
  /\ lastOp = "createNextGeneration" /\ ~thrown
  /\ ticks >= 1
  /\ foodAmount = 2
  /\ Cardinality(OrganismIds(world)) = 2
  /\ Cardinality(FoodIds(world)) = 2
  /\ \A i \in Ids(world) : i > 10

\* C14: createNextGeneration on a world with no organism completes without
\* an error and leaves populationSize fresh organisms.
C14_ZeroSurvivorsFallback ==
  [][(lastOp' = "createNextGeneration" /\ OrganismIds(world) = {})
       => /\ ~thrown'
          /\ Cardinality(OrganismIds(world')) = populationSize']_vars

-----------------------------------------------------------------------------
(***************************************************************************)
(* Joint counts along a lineage (specification SpecLineage): a first       *)
(* generation of one organism with any joint count initializeGeneration    *)
(* can draw, then reproduceOrganism and createNextGeneration with          *)
(* populationSize 1 and foodAmount 0, every joint-count mutation allowed.  *)
(***************************************************************************)
\* MIN_JOINT_COUNT + Math.floor(Math.random() * (MAX_JOINT_COUNT - MIN_JOINT_COUNT + 1))
SpawnJointCounts == MIN_JOINT_COUNT..MAX_JOINT_COUNT

\* EvolutionSystem.reproduceOrganism with every outcome of the joint-count
\* mutation
ReproduceOrganismAll(w, parent) ==
  LET position == GetOrganismPosition(w, parent)
      parentJoints == Len(w.entities[parent].jointIds)
  IN {CreateOrganism(w,
        Max(100, Min(CANVAS_WIDTH * 10 - 100, position[1] + off[1])),
        Max(100, Min(CANVAS_HEIGHT * 10 - 100, position[2] + off[2])),
        n) :
      off \in ChildOffsets, n \in ChildJointCounts(parentJoints)}

InitLineage ==
  /\ world \in {CreateOrganism(EmptyWorld, p[1], p[2], jointCount) :
                  p \in SpawnPoints, jointCount \in SpawnJointCounts}
  /\ foodAmount = 0
  /\ populationSize = 1
  /\ generationCount = 0
  /\ foodsEaten = 0 /\ accumulatedTime = 0 /\ thrown = FALSE /\ ticks = 0
  /\ contested = FALSE
  /\ lastOp = "initializeGeneration"
  /\ pipeIdle /\ selIdle /\ mutIdle /\ extIdle

\* reproduceOrganism(parent, rate): the child joins the world
LineageReproduceOf(parent) ==
  /\ Cardinality(OrganismIds(world)) < MaxLineageOrganisms
  /\ world' \in ReproduceOrganismAll(world, parent)
  /\ lastOp' = "reproduceOrganism"
  /\ UNCHANGED <<foodAmount, populationSize, generationCount, foodsEaten,
                 accumulatedTime, thrown, ticks, contested>>
  /\ UNCHANGED <<pipeVars, selVars, mutVars, extVars>>

LineageReproduce == \E parent \in OrganismIds(world) : LineageReproduceOf(parent)

\* createNextGeneration with populationSize 1 and no food: the elite copy of
\* the best organism, no fill, removal of the old generation
LineageNextGenerationOf(parent) ==
  /\ generationCount < MaxLineageGenerations
  /\ parent = SortByFitness(world, EntitiesWith(world, "organism"), <<>>)[1]
  /\ world' \in {RemoveAll(v, EntitiesToRemove(world)) :
                   v \in ReproduceOrganismAll(world, parent)}
  /\ generationCount' = generationCount + 1
  /\ lastOp' = "createNextGeneration"
  /\ UNCHANGED <<foodAmount, populationSize, foodsEaten, accumulatedTime, thrown,
                 ticks, contested>>
  /\ UNCHANGED <<pipeVars, selVars, mutVars, extVars>>

LineageNextGeneration ==
  \E parent \in OrganismIds(world) : LineageNextGenerationOf(parent)

NextLineage ==
  \/ LineageReproduce
  \/ LineageNextGeneration

SpecLineage == InitLineage /\ [][NextLineage]_vars

\* number of joints of organism o
JointCount(w, o) == Len(w.entities[o].jointIds)

\* the organisms a step has added to the world
Born(w, v) == OrganismIds(v) \ OrganismIds(w)

-----------------------------------------------------------------------------
(***************************************************************************)
(* The food supply (specification SpecFood): one organism that stays where *)
(* it was spawned, food that appears at FoodPoints, and the host changing  *)
(* foodAmount with setParams at any moment.                                *)
(***************************************************************************)
\* amounts handed to replenishFood: Math.max(1, Math.floor(foodAmount * 0.1))
\* and Math.floor(foodAmount / 10) of the host, and larger ones
ReplenishAmounts == {0, 1, 2, 3}

InitFood ==
  /\ world = EmptyWorld
  /\ foodAmount \in FoodAmounts
  /\ populationSize = 1
  /\ generationCount = 0
  /\ foodsEaten = 0 /\ accumulatedTime = 0 /\ thrown = FALSE /\ ticks = 0
  /\ contested = FALSE
  /\ lastOp = "constructor"
  /\ paramsChanged = FALSE
  /\ pipeIdle /\ selIdle /\ mutIdle /\ replayIdle /\ timerIdle /\ hostIdle /\ lateIdle

\* EvolutionSystem.setParams with a new foodAmount
FoodSetParams ==
  /\ foodAmount' \in FoodAmounts
  /\ paramsChanged' = TRUE
  /\ lastOp' = "setParams"
  /\ thrown' = FALSE
  /\ UNCHANGED <<world, populationSize, generationCount, foodsEaten,
                 accumulatedTime, ticks, contested>>
  /\ UNCHANGED <<pipeVars, selVars, mutVars, replayVars, timerVars, hostVars, lateVars>>

\* EvolutionSystem.initializeGeneration
FoodInitializeGeneration ==
  /\ world' \in InitializeFood(SpawnOrganisms({Clear(world)}, populationSize),
                               foodAmount)
  /\ generationCount' = 0
  /\ paramsChanged' = FALSE
  /\ lastOp' = "initializeGeneration"
  /\ thrown' = FALSE
  /\ UNCHANGED <<foodAmount, populationSize, foodsEaten, accumulatedTime, ticks,
                 contested>>
  /\ UNCHANGED <<pipeVars, selVars, mutVars, replayVars, timerVars, hostVars, lateVars>>

\* EvolutionSystem.replenishFood(amount)
FoodReplenishOf(amount) ==
  /\ LET currentFoodCount == Cardinality(FoodIds(world))
         foodToAdd == FoodToAdd(amount, foodAmount, currentFoodCount)
     IN world' \in InitializeFood({world}, foodToAdd)
  /\ lastOp' = "replenishFood"
  /\ thrown' = FALSE
  /\ UNCHANGED <<foodAmount, populationSize, generationCount, foodsEaten,
                 accumulatedTime, ticks, contested, paramsChanged>>
  /\ UNCHANGED <<pipeVars, selVars, mutVars, replayVars, timerVars, hostVars, lateVars>>

FoodReplenish == \E amount \in ReplenishAmounts : FoodReplenishOf(amount)

\* World.update(deltaTime) with no joint moving: FoodSystem.update
FoodTick ==
  /\ ticks < MaxFoodTicks
  /\ LET r == FoodSystemUpdate(world, accumulatedTime, PipelineDelta)
     IN /\ world' = r.world
        /\ foodsEaten' = r.foodsEaten
        /\ accumulatedTime' = r.accumulatedTime
  /\ ticks' = ticks + 1
  /\ lastOp' = "tick"
  /\ thrown' = FALSE
  /\ UNCHANGED <<foodAmount, populationSize, generationCount, contested,
                 paramsChanged>>
  /\ UNCHANGED <<pipeVars, selVars, mutVars, replayVars, timerVars, hostVars, lateVars>>

\* EvolutionSystem.createNextGeneration
FoodCreateNextGeneration ==
  /\ generationCount < MaxFoodGenerations
  /\ generationCount' = generationCount + 1
  /\ lastOp' = "createNextGeneration"
  /\ IF OrganismIds(world) = {} /\ populationSize >= 1
     THEN /\ thrown' = TRUE
          /\ world' = world
          /\ paramsChanged' = paramsChanged
     ELSE /\ thrown' = FALSE
          /\ world' \in InitializeFood(
                          NextGenerationWorlds(world, generationCount',
                                               populationSize),
                          foodAmount)
          /\ paramsChanged' = FALSE
  /\ UNCHANGED <<foodAmount, populationSize, foodsEaten, accumulatedTime, ticks,
                 contested>>
  /\ UNCHANGED <<pipeVars, selVars, mutVars, replayVars, timerVars, hostVars, lateVars>>

NextFood ==
  \/ FoodSetParams
  \/ FoodInitializeGeneration
  \/ FoodReplenish
  \/ FoodTick
  \/ FoodCreateNextGeneration

SpecFood == InitFood /\ [][NextFood]_vars

FoodCount(w) == Cardinality(FoodIds(w))

\* C13: replenishFood(amount), amount >= 0, removes no food and leaves
\* min(foodAmount, before + amount) foods when before <= foodAmount and the
\* count unchanged when before > foodAmount; and while setParams has not been
\* called since the last initializeGeneration / createNextGeneration the
\* world never holds more than foodAmount foods.
C13_ReplenishCapped ==
  /\ [](~paramsChanged => FoodCount(world) <= foodAmount)
  /\ [][\A amount \in ReplenishAmounts :
          FoodReplenishOf(amount)
            => /\ FoodIds(world) \subseteq FoodIds(world')
               /\ FoodCount(world') =
                    IF FoodCount(world) <= foodAmount
                    THEN Min(foodAmount, FoodCount(world) + amount)
                    ELSE FoodCount(world)]_vars

\* the organism has eaten and a replenish call has topped the food up to
\* foodAmount again
C13_Witness ==
  /\ lastOp = "replenishFood"
  /\ ~paramsChanged
  /\ ticks >= 1
  /\ foodAmount = 2
  /\ FoodCount(world) = 2
  /\ \E o \in OrganismIds(world) : world.entities[o].foodEaten >= 1

-----------------------------------------------------------------------------
(***************************************************************************)
(* Replay (specification SpecReplay): two runs of the pipeline, pjoints    *)
(* and replica, start from the same joints and are given the same ticks    *)
(* and the same Math.random() outcomes.  The setTimeout callbacks of       *)
(* StateSystem and JointConnectionSystem fire in each run at moments of    *)
(* the run's own wall clock.                                               *)
(***************************************************************************)
\* one World.update on the joints: StateSystem with draws d,
\* JointConnectionSystem with the flipped joint flip, PhysicsSystem
TickJoints(joints, d, flip, tick) ==
  LET decided == [j \in DOMAIN joints |-> StateSystemJoint(joints[j], d[j], tick)]
      connected == JointConnectionSystemJoints(decided, flip, tick)
  IN [j \in DOMAIN joints |-> PhysicsJoint(connected[j], PipelineDelta)]

InitReplay ==
  /\ systems = HostOrder
  /\ physicsFile = "PhysicsSystem.js"
  /\ ran = <<>>
  /\ pstale = FALSE
  /\ pjoints = InitialJoints
  /\ replica = InitialJoints
  /\ world = EmptyWorld
  /\ lastOp = "constructor"
  /\ worldIdle /\ selIdle /\ mutIdle /\ timerIdle /\ hostIdle /\ foodIdle /\ lateIdle

\* the same tick, with the same draws, in both runs
ReplayTick ==
  /\ ticks < MaxReplayTicks
  /\ \E d \in [DOMAIN pjoints -> StateDraws],
        flip \in {0} \cup {j \in DOMAIN pjoints :
                             /\ pjoints[j].pendingFlips < MaxPendingFlips
                             /\ replica[j].pendingFlips < MaxPendingFlips} :
       /\ pjoints' = TickJoints(pjoints, d, flip, ticks + 1)
       /\ replica' = TickJoints(replica, d, flip, ticks + 1)
  /\ ticks' = ticks + 1
  /\ lastOp' = "replayTick"
  /\ UNCHANGED <<world, foodAmount, populationSize, generationCount, foodsEaten,
                 accumulatedTime, thrown, contested, systems, ran, physicsFile,
                 pstale>>
  /\ UNCHANGED <<selVars, mutVars, timerVars, hostVars, foodVars, lateVars>>

\* the timeout of temporaryStateChange fires for joint j in one of the runs
ReplayStateTimerFires ==
  /\ \E j \in DOMAIN pjoints :
       \/ /\ pjoints[j].stateChangeTimer
          /\ pjoints' = [pjoints EXCEPT ![j].stateChangeTimer = FALSE]
          /\ replica' = replica
       \/ /\ replica[j].stateChangeTimer
          /\ replica' = [replica EXCEPT ![j].stateChangeTimer = FALSE]
          /\ pjoints' = pjoints
  /\ lastOp' = "stateTimer"
  /\ UNCHANGED <<world, foodAmount, populationSize, generationCount, foodsEaten,
                 accumulatedTime, thrown, ticks, contested, systems, ran,
                 physicsFile, pstale>>
  /\ UNCHANGED <<selVars, mutVars, timerVars, hostVars, foodVars, lateVars>>

\* the flip-back timeout of JointConnectionSystem fires for joint j in one of
\* the runs
ReplayFlipTimerFires ==
  /\ \E j \in DOMAIN pjoints :
       \/ /\ pjoints[j].pendingFlips > 0
          /\ pjoints' = [pjoints EXCEPT ![j].isAnchored = ~@,
                                        ![j].pendingFlips = @ - 1]
          /\ replica' = replica
       \/ /\ replica[j].pendingFlips > 0
          /\ replica' = [replica EXCEPT ![j].isAnchored = ~@,
                                        ![j].pendingFlips = @ - 1]
          /\ pjoints' = pjoints
  /\ lastOp' = "flipTimer"
  /\ UNCHANGED <<world, foodAmount, populationSize, generationCount, foodsEaten,
                 accumulatedTime, thrown, ticks, contested, systems, ran,
                 physicsFile, pstale>>
  /\ UNCHANGED <<selVars, mutVars, timerVars, hostVars, foodVars, lateVars>>

NextReplay ==
  \/ ReplayTick
  \/ ReplayStateTimerFires
  \/ ReplayFlipTimerFires

SpecReplay == InitReplay /\ [][NextReplay]_vars

\* C16: after every tick the two runs, which got the same deltaTimes and the
\* same random outcomes, have the same anchor flags and the same debounce
\* flags, whenever their pending timeouts fired.
C16_ReplayDeterministic ==
  lastOp = "replayTick"
    => \A j \in DOMAIN pjoints :
         /\ pjoints[j].isAnchored = replica[j].isAnchored
         /\ pjoints[j].stateChangeTimer = replica[j].stateChangeTimer

-----------------------------------------------------------------------------
(***************************************************************************)
(* Entity ids and the state systems key by them (specification             *)
(* SpecTimers): the world goes through generations and restarts while      *)
(* StateSystem keeps stateChangeTimer and organismBehaviorModes, and the    *)
(* timeouts of temporaryStateChange fire at any later moment.  No food is  *)
(* placed (foodAmount 0).  Of the joints StateSystem changes in a tick the *)
(* model follows the first joint of each organism; for the others the      *)
(* change is one of those temporaryStateChange ignores.                    *)
(***************************************************************************)
\* populationSize values of the host
TimerPopulations == {1, 2}

\* the joints whose state changes are followed
WatchedJoints(w) ==
  {w.entities[o].jointIds[1] : o \in OrganismIds(w)} \cap JointIds(w)

\* ids under which some state outside the entity itself is stored: flags of
\* StateSystem.stateChangeTimer, keys of organismBehaviorModes, and entries
\* of the connections of a joint of world w
KeyedIds(w) ==
  stateChangeTimer \cup behaviorModes
    \cup UNION {SeqToSet(w.entities[j].connections) : j \in JointIds(w)}

InitTimers ==
  /\ world = EmptyWorld
  /\ foodAmount = 0
  /\ populationSize \in TimerPopulations
  /\ generationCount = 0
  /\ foodsEaten = 0 /\ accumulatedTime = 0 /\ thrown = FALSE /\ ticks = 0
  /\ contested = FALSE
  /\ lastOp = "constructor"
  /\ stateChangeTimer = {} /\ pendingTimers = {} /\ behaviorModes = {}
  /\ pipeIdle /\ selIdle /\ mutIdle /\ replayIdle /\ hostIdle /\ foodIdle /\ lateIdle

\* EvolutionSystem.setParams before a restart
TimersSetParams ==
  /\ populationSize' \in TimerPopulations
  /\ lastOp' = "setParams"
  /\ thrown' = FALSE
  /\ UNCHANGED <<world, foodAmount, generationCount, foodsEaten, accumulatedTime,
                 ticks, contested>>
  /\ UNCHANGED <<pipeVars, selVars, mutVars, extVars>>

\* EvolutionSystem.initializeGeneration: world.clear() and a new population
TimersInitializeGeneration ==
  /\ world' \in InitializeFood(SpawnOrganisms({Clear(world)}, populationSize),
                               foodAmount)
  /\ generationCount' = 0
  /\ lastOp' = "initializeGeneration"
  /\ thrown' = FALSE
  /\ UNCHANGED <<foodAmount, populationSize, foodsEaten, accumulatedTime, ticks,
                 contested>>
  /\ UNCHANGED <<pipeVars, selVars, mutVars, extVars>>

\* EvolutionSystem.createNextGeneration
TimersCreateNextGeneration ==
  /\ generationCount < MaxTimerGenerations
  /\ generationCount' = generationCount + 1
  /\ lastOp' = "createNextGeneration"
  /\ IF OrganismIds(world) = {} /\ populationSize >= 1
     THEN /\ thrown' = TRUE
          /\ world' = world
     ELSE /\ thrown' = FALSE
          /\ world' \in InitializeFood(
                          NextGenerationWorlds(world, generationCount',
                                               populationSize),
                          foodAmount)
  /\ UNCHANGED <<foodAmount, populationSize, foodsEaten, accumulatedTime, ticks,
                 contested>>
  /\ UNCHANGED <<pipeVars, selVars, mutVars, extVars>>

\* World.clear()
TimersClear ==
  /\ world' = Clear(world)
  /\ lastOp' = "clear"
  /\ thrown' = FALSE
  /\ UNCHANGED <<foodAmount, populationSize, generationCount, foodsEaten,
                 accumulatedTime, ticks, contested>>
  /\ UNCHANGED <<pipeVars, selVars, mutVars, extVars>>

\* World.removeEntity(entityId) for an organism and its joints
TimersRemoveEntity ==
  /\ \E o \in OrganismIds(world) :
       world' = RemoveAll(RemoveEntity(world, o), world.entities[o].jointIds)
  /\ lastOp' = "removeEntity"
  /\ thrown' = FALSE
  /\ UNCHANGED <<foodAmount, populationSize, generationCount, foodsEaten,
                 accumulatedTime, ticks, contested>>
  /\ UNCHANGED <<pipeVars, selVars, mutVars, extVars>>

\* StateSystem.update: every organism gets its organismBehaviorModes entry;
\* each joint in changed is not debounced, has its state changed by
\* temporaryStateChange, gets its flag and a timeout
TimersTick ==
  /\ ticks < MaxTimerTicks
  /\ behaviorModes' = behaviorModes \cup OrganismIds(world)
  /\ \E changed \in SUBSET (WatchedJoints(world) \ stateChangeTimer) :
       /\ stateChangeTimer' = stateChangeTimer \cup changed
       /\ pendingTimers' = pendingTimers \cup changed
  /\ ticks' = ticks + 1
  /\ lastOp' = "tick"
  /\ thrown' = FALSE
  /\ UNCHANGED <<world, foodAmount, populationSize, generationCount, foodsEaten,
                 accumulatedTime, contested>>
  /\ UNCHANGED <<pipeVars, selVars, mutVars, replayVars, hostVars, foodVars, lateVars>>

\* the timeout of temporaryStateChange for id: the flag is deleted only if an
\* entity with that id is in the world
TimerFires(id) ==
  /\ id \in pendingTimers
  /\ pendingTimers' = pendingTimers \ {id}
  /\ stateChangeTimer' = IF id \in Ids(world) THEN stateChangeTimer \ {id}
                         ELSE stateChangeTimer
  /\ lastOp' = "stateTimer"
  /\ UNCHANGED <<world, foodAmount, populationSize, generationCount, foodsEaten,
                 accumulatedTime, thrown, ticks, contested, behaviorModes>>
  /\ UNCHANGED <<pipeVars, selVars, mutVars, replayVars, hostVars, foodVars, lateVars>>

\* ids an entity of the model can have
TimerIds == 1..MaxTimerIds

TimersTimerFires == \E id \in TimerIds : TimerFires(id)

NextTimers ==
  \/ TimersSetParams
  \/ TimersInitializeGeneration
  \/ TimersCreateNextGeneration
  \/ TimersClear
  \/ TimersRemoveEntity
  \/ TimersTick
  \/ TimersTimerFires

SpecTimers == InitTimers /\ [][NextTimers]_vars

\* every pending timeout fires in the end
SpecTimersFair ==
  SpecTimers /\ \A id \in TimerIds : WF_vars(TimerFires(id))

\* the entities a step has created: all of them after a clear, the ids that
\* were not in the world otherwise
Created(w, v, op) ==
  IF op \in {"initializeGeneration", "clear"} THEN Ids(v) ELSE Ids(v) \ Ids(w)

\* C11: no step gives a new entity an id under which a system or a joint
\* still keeps state of an earlier entity.
C11_IdsNotReusedWhileReferenced ==
  [][Created(world, world', lastOp')
       \cap (stateChangeTimer \cup behaviorModes
               \cup IF lastOp' = "initializeGeneration" THEN {}
                    ELSE KeyedIds(world)) = {}]_vars

\* C17: a debounce flag set for a joint that is in the world is cleared in
\* the end (or the joint leaves the world), also for a joint that took the
\* id of an earlier joint whose timeout was pending.
C17_DebounceBounded ==
  \A id \in TimerIds :
    (id \in JointIds(world) /\ id \in stateChangeTimer)
      ~> (id \notin stateChangeTimer \/ id \notin JointIds(world))

-----------------------------------------------------------------------------
(***************************************************************************)
(* The host loop (specification SpecHost): the simulate callbacks of       *)
(* useECSSimulation.js, one action per animation frame.  What the world    *)
(* does in the frame reaches the host as three observations: the food      *)
(* count read at the start of the frame, whether FoodSystem ate in         *)
(* world.update, and the time that went by.                                *)
(***************************************************************************)
\* the two simulate loops: lines 119-181 and lines 352-405
HostVariants == {1, 2}

\* populationRef.current values handed to setParams and the constructor
HostPopulations == {0, 1}

\* food counts the frame can read
HostFoodCounts == {0, 1}

\* frames of a generation in which the model lets organisms eat: the first
\* ones, and the first ones counted for stagnation (frameCount > 500)
FedFrames == (1..MaxFedFrames) \cup (501..(500 + MaxFedFrames))

\* growth of the generation time in one frame: none, or all of it
TimerSteps == {0, GENERATION_TIME}

\* frameCount >= 100000 of the first loop, frameCount >= 500 of the second
FrameCap(variant) == IF variant = 1 THEN 100000 ELSE 500

\* the end test with the food condition left out (mutant)
ShouldEndGenerationNoFood(variant, elapsed, foodCount, frames, counter) ==
  \/ elapsed >= GENERATION_TIME
  \/ frames >= FrameCap(variant)
  \/ variant = 1 /\ counter >= 1000

\* shouldEndGeneration of the first loop, the if condition of the second
ShouldEndGeneration(variant, elapsed, foodCount, frames, counter) ==
  \/ elapsed >= GENERATION_TIME
  \/ foodCount = 0
  \/ frames >= FrameCap(variant)
  \/ variant = 1 /\ counter >= 1000

\* generationEndCounter after the frame's update (first loop only)
NextEndCounter(variant, counter, ate, frames) ==
  IF variant = 1 /\ ~ate /\ frames > 500 THEN counter + 1 ELSE 0

\* number of organisms createNextGeneration leaves: the elite copy, then
\* children up to population
OrganismsAfter(organisms, population) ==
  IF organisms = 0 THEN 0 ELSE Max(1, population)

InitHost ==
  /\ hostVariant \in HostVariants
  /\ populationSize \in HostPopulations
  /\ hostOrganisms = populationSize
  /\ frameCount = 0 /\ generationEndCounter = 0 /\ hostGeneration = 0
  /\ hostTimer = 0 /\ idleFrames = 0 /\ observed = <<>> /\ calls = 0
  /\ world = EmptyWorld
  /\ foodAmount = 0 /\ generationCount = 0 /\ foodsEaten = 0
  /\ accumulatedTime = 0 /\ thrown = FALSE /\ ticks = 0 /\ contested = FALSE
  /\ lastOp = "initializeGeneration"
  /\ pipeIdle /\ selIdle /\ mutIdle /\ replayIdle /\ timerIdle /\ foodIdle /\ lateIdle

\* one call of simulate.  restart is needsRestart, population the
\* populationRef.current a restart hands over, foodCount the length of
\* foodEntities, ate whether foodSystem.foodsEaten is not 0 after
\* world.update, step the time gone by
Frame(restart, population, foodCount, ate, step) ==
  LET organisms == IF restart THEN population ELSE hostOrganisms
      generation == IF restart THEN 0 ELSE hostGeneration
      frames == (IF restart THEN 0 ELSE frameCount) + 1
      counter == NextEndCounter(hostVariant,
                                IF restart THEN 0 ELSE generationEndCounter,
                                ate, frames)
      elapsed == (IF restart THEN 0 ELSE hostTimer) + step
      end == ShouldEndGeneration(hostVariant, elapsed, foodCount, frames, counter)
      idle == IF ate THEN 0 ELSE (IF restart THEN 0 ELSE idleFrames) + 1
      throws == end /\ organisms = 0 /\ (IF restart THEN population
                                         ELSE populationSize) >= 1
  IN /\ ~thrown
     /\ frameCount < MaxHostFrames
     /\ restart \/ hostGeneration < MaxHostGenerations
     /\ ate => frames \in FedFrames
     /\ populationSize' = IF restart THEN population ELSE populationSize
     /\ idleFrames' = IF end /\ ~throws THEN 0 ELSE idle
     /\ observed' = [elapsed |-> elapsed, foodCount |-> foodCount, frames |-> frames,
                 counter |-> counter, generation |-> generation,
                 idle |-> idle]
     /\ calls' = IF end THEN 1 ELSE 0
     /\ thrown' = throws
     /\ IF throws
        THEN /\ hostOrganisms' = organisms
             /\ hostGeneration' = generation
             /\ frameCount' = frames
             /\ generationEndCounter' = counter
             /\ hostTimer' = elapsed
        ELSE IF end
        THEN /\ hostOrganisms' = OrganismsAfter(organisms, populationSize')
             /\ hostGeneration' = generation + 1
             /\ frameCount' = 0
             /\ generationEndCounter' = 0
             /\ hostTimer' = 0
        ELSE /\ hostOrganisms' = organisms
             /\ hostGeneration' = generation
             /\ frameCount' = frames
             /\ generationEndCounter' = counter
             /\ hostTimer' = elapsed
     /\ lastOp' = IF restart THEN "restartFrame" ELSE "frame"
     /\ UNCHANGED <<world, foodAmount, generationCount, foodsEaten,
                    accumulatedTime, ticks, contested, hostVariant>>
     /\ UNCHANGED <<pipeVars, selVars, mutVars, replayVars, timerVars, foodVars, lateVars>>

\* a frame of the running simulation
HostFrame ==
  \E foodCount \in HostFoodCounts, ate \in BOOLEAN, step \in TimerSteps :
    Frame(FALSE, populationSize, foodCount, ate, step)

\* the frame after the user pressed restart
HostRestartFrame ==
  \E population \in HostPopulations, foodCount \in HostFoodCounts,
     ate \in BOOLEAN, step \in TimerSteps :
    Frame(TRUE, population, foodCount, ate, step)

NextHost ==
  \/ HostFrame
  \/ HostRestartFrame

SpecHost == InitHost /\ [][NextHost]_vars

\* some generation-end condition held in the frame that was just run
EndConditionSeen ==
  \/ observed.elapsed >= GENERATION_TIME
  \/ observed.foodCount = 0
  \/ observed.frames >= FrameCap(hostVariant)
  \/ hostVariant = 1 /\ observed.counter >= 1000

\* C15: a frame in which a generation-end condition holds calls
\* createNextGeneration exactly once, raises the host's generation number by
\* one and resets the frame and stagnation counters; a frame in which none
\* holds does not call it; and the stagnation counter reaches its threshold
\* only after that many frames in a row without food eaten.
C15_GenerationEndsOncePerFrame ==
  lastOp \in {"frame", "restartFrame"}
    => /\ observed.counter <= observed.idle
       /\ IF EndConditionSeen
          THEN /\ calls = 1
               /\ ~thrown
               /\ hostGeneration = observed.generation + 1
               /\ frameCount = 0
               /\ generationEndCounter = 0
          ELSE /\ calls = 0
               /\ hostGeneration = observed.generation
               /\ frameCount = observed.frames

\* the first loop has ended a generation for stagnation alone: food was on
\* the canvas, the time had not run out, the counter stood at 1000
C15_Witness ==
  /\ lastOp = "frame"
  /\ hostVariant = 1
  /\ calls = 1
  /\ observed.counter = 1000
  /\ observed.foodCount > 0
  /\ observed.elapsed < GENERATION_TIME
  /\ hostGeneration = 1

-----------------------------------------------------------------------------
(***************************************************************************)
(* PhysicsSystem.update on IEEE numbers (specification SpecPhysics): one   *)
(* entity with Position, Velocity and Physics whose components are finite  *)
(* numbers (hundredths), NaN or an infinity.  Forces reach the entity      *)
(* through the public field physics.force before the update.               *)
(***************************************************************************)
Fin(n) == [k |-> "fin", v |-> n]
NaN == [k |-> "nan", v |-> 0]
Inf(sign) == [k |-> "inf", v |-> sign]

IsNaN(a) == a.k = "nan"
IsFinite(a) == a.k = "fin"
Sign(n) == IF n > 0 THEN 1 ELSE IF n < 0 THEN -1 ELSE 0
Abs(n) == IF n < 0 THEN 0 - n ELSE n

\* a + b
XAdd(a, b) ==
  IF IsNaN(a) \/ IsNaN(b) THEN NaN
  ELSE IF a.k = "inf" THEN (IF b.k = "inf" /\ b.v # a.v THEN NaN ELSE a)
  ELSE IF b.k = "inf" THEN b
  ELSE Fin(a.v + b.v)

\* a * (num / den) for a finite factor, den > 0; infinity * 0 is NaN
XScale(a, num, den) ==
  IF IsNaN(a) THEN NaN
  ELSE IF a.k = "inf" THEN (IF num = 0 THEN NaN ELSE Inf(a.v * Sign(num)))
  ELSE Fin(Sign(a.v * num) * (Abs(a.v * num) \div den))

\* a < n and a > n; every comparison with NaN is false
XLess(a, n) == (IsFinite(a) /\ a.v < n) \/ (a.k = "inf" /\ a.v < 0)
XGreater(a, n) == (IsFinite(a) /\ a.v > n) \/ (a.k = "inf" /\ a.v > 0)

XAddVec(a, b) == <<XAdd(a[1], b[1]), XAdd(a[2], b[2])>>
XScaleVec(v, num, den) == <<XScale(v[1], num, den), XScale(v[2], num, den)>>
FinVec(v) == <<Fin(v[1]), Fin(v[2])>>
IsFiniteVec(v) == IsFinite(v[1]) /\ IsFinite(v[2])

\* Math.sqrt(v.x * v.x + v.y * v.y)
XSpeed(v) ==
  IF IsNaN(v[1]) \/ IsNaN(v[2]) THEN NaN
  ELSE IF ~IsFiniteVec(v) THEN Inf(1)
  ELSE Fin(ISqrt(v[1].v * v[1].v + v[2].v * v[2].v))

\* velocity.multiply(maxVelocity / currentSpeed) when currentSpeed > maxVelocity
XCap(v, maxVelocity) ==
  LET currentSpeed == XSpeed(v)
  IN IF ~XGreater(currentSpeed, maxVelocity) THEN v
     ELSE IF IsFinite(currentSpeed) THEN XScaleVec(v, maxVelocity, currentSpeed.v)
     ELSE XScaleVec(v, 0, 1)

\* the boundary checks of PhysicsSystem.js on one axis:
\* <<coordinate, velocity, clamped>>
XBounce(c, v, limit) ==
  IF XLess(c, 0) THEN <<Fin(0), XScale(v, -80, 100), TRUE>>
  ELSE IF XGreater(c, limit) THEN <<Fin(limit), XScale(v, -80, 100), TRUE>>
  ELSE <<c, v, FALSE>>

\* the anchored branch of both sources
XAnchored(b) ==
  [b EXCEPT !.velocity = FinVec(<<0, 0>>), !.force = FinVec(<<0, 0>>),
            !.integrated = FALSE, !.clamped = <<FALSE, FALSE>>]

\* PhysicsSystem.js, update for one entity.  The minimum-speed branch needs
\* a speed strictly between 0 and 0.01, less than one unit here.
XPhysicsJoint(b, deltaTime) ==
  IF b.isAnchored THEN XAnchored(b)
  ELSE LET scaledDelta == Max(deltaTime, 50)
           force == XAddVec(b.force, FinVec(Jitter))
           accelerated == XAddVec(b.velocity, XScaleVec(force, scaledDelta * 15, 10000))
           damped == XScaleVec(accelerated, JOINT_DAMPING, 100)
           capped == XCap(damped, 800)
           moved == XAddVec(b.position, XScaleVec(capped, scaledDelta * 12, 10000))
           bx == XBounce(moved[1], capped[1], CANVAS_WIDTH * 100)
           by == XBounce(moved[2], capped[2], CANVAS_HEIGHT * 100)
       IN [b EXCEPT !.position = <<bx[1], by[1]>>,
                    !.velocity = <<bx[2], by[2]>>,
                    !.force = FinVec(<<0, 0>>),
                    !.integrated = TRUE,
                    !.clamped = <<bx[3], by[3]>>,
                    !.incoming = capped,
                    !.reset = FALSE]

\* outcomes of the Math.random() calls of src/unnamed/part_015 that decide
\* what the boundary checks and the kick do: the energy kept by a bounce
\* (50-120%), the wild bounce, the kick, the point of the NaN reset
ChaosDraws ==
  [energy : {50, 120}, wild : BOOLEAN, kick : BOOLEAN,
   point : {<<0, 0>>, <<40000, 25000>>}]

\* the random force, the damping and the velocity cap of part_015: one
\* outcome each (chaos level 1, no impulse, no boost)
ChaosForce == <<500, 0>>
ChaosDamping == 97
ChaosMaxVelocity == 3000
KickVelocity == <<2500, -2500>>
Padding == 1000

\* Math.max(padding, Math.min(limit - padding, c)) for c that is not NaN
XClamp(c, limit) ==
  IF XLess(c, Padding) THEN Fin(Padding)
  ELSE IF XGreater(c, limit - Padding) THEN Fin(limit - Padding)
  ELSE c

\* one of the four enhanced boundary checks of part_015 on velocity vel:
\* axis is the clamped axis, inward the sign that points into the canvas
ChaosBounce(vel, axis, inward, d) ==
  LET other == 3 - axis
      bounced == [vel EXCEPT ![axis] = XScale(@, 0 - d.energy, 100)]
      size == IF IsFinite(bounced[axis]) THEN Fin(Abs(bounced[axis].v))
              ELSE IF IsNaN(bounced[axis]) THEN NaN ELSE Inf(1)
  IN IF ~d.wild THEN bounced
     ELSE [t \in {1, 2} |->
             IF t = axis THEN XScale(size, inward * 50, 100)
             ELSE XScale(size, 50, 100)]

\* src/unnamed/part_015, update for one entity with the draws d
XPhysicsJointChaos(b, deltaTime, d) ==
  IF b.isAnchored THEN XAnchored(b)
  ELSE LET force == XAddVec(b.force, FinVec(ChaosForce))
           accelerated == XAddVec(b.velocity, XScaleVec(force, deltaTime, 1000))
           damped == XScaleVec(accelerated, ChaosDamping, 100)
           capped == XCap(damped, ChaosMaxVelocity)
           moved == XAddVec(b.position, XScaleVec(capped, deltaTime, 1000))
           reset == IsNaN(moved[1]) \/ IsNaN(moved[2])
           safe == IF reset THEN FinVec(d.point) ELSE moved
           v0 == IF reset THEN FinVec(<<0, 0>>) ELSE capped
           x == XClamp(safe[1], CANVAS_WIDTH * 100)
           y == XClamp(safe[2], CANVAS_HEIGHT * 100)
           left == x.v <= Padding
           right == x.v >= CANVAS_WIDTH * 100 - Padding
           top == y.v <= Padding
           bottom == y.v >= CANVAS_HEIGHT * 100 - Padding
           v1 == IF left THEN ChaosBounce(v0, 1, 1, d) ELSE v0
           v2 == IF right THEN ChaosBounce(v1, 1, -1, d) ELSE v1
           v3 == IF top THEN ChaosBounce(v2, 2, 1, d) ELSE v2
           v4 == IF bottom THEN ChaosBounce(v3, 2, -1, d) ELSE v3
       IN [b EXCEPT !.position = <<x, y>>,
                    !.velocity = IF d.kick THEN FinVec(KickVelocity) ELSE v4,
                    !.force = FinVec(<<0, 0>>),
                    !.integrated = TRUE,
                    !.clamped = <<left \/ right, top \/ bottom>>,
                    !.incoming = v0,
                    !.reset = reset]

\* the PhysicsSystem sources with a boundary check
GuardFiles == {"PhysicsSystem.js", "part_015"}

\* positions entities are created at: inside the canvas, next to its edges,
\* and outside it (joints are placed on a circle around the click point)
BodyPoints == {<<40000, 25000>>, <<20, 25000>>, <<79990, 49990>>, <<-2500, 25000>>}

\* forces written to physics.force before the update: none, a push, and
\* the extreme forces that overflow to an infinity or are NaN
IncomingForces ==
  {FinVec(<<0, 0>>), FinVec(<<-20000, 0>>), FinVec(<<20000, 20000>>),
   <<Inf(1), Fin(0)>>, <<Fin(0), Inf(-1)>>, <<NaN, Fin(0)>>}

InitPhysics ==
  /\ physicsFile \in GuardFiles
  /\ \E p \in BodyPoints, anchored \in BOOLEAN :
       body = [isAnchored |-> anchored, position |-> FinVec(p),
               velocity |-> FinVec(<<0, 0>>), force |-> FinVec(<<0, 0>>),
               integrated |-> FALSE, clamped |-> <<FALSE, FALSE>>,
               incoming |-> FinVec(<<0, 0>>), reset |-> FALSE]
  /\ systems = <<>> /\ ran = <<>> /\ pjoints = <<>> /\ pstale = FALSE
  /\ world = EmptyWorld
  /\ lastOp = "constructor"
  /\ worldIdle /\ selIdle /\ mutIdle
  /\ replayIdle /\ timerIdle /\ hostIdle /\ foodIdle /\ restIdle

\* a system or a caller adds f to physics.force
PhysicsAddForce ==
  /\ ticks < MaxPhysicsTicks
  /\ lastOp # "addForce"
  /\ \E f \in IncomingForces : body' = [body EXCEPT !.force = XAddVec(@, f)]
  /\ lastOp' = "addForce"
  /\ UNCHANGED <<world, foodAmount, populationSize, generationCount, foodsEaten,
                 accumulatedTime, thrown, ticks, contested>>
  /\ UNCHANGED <<pipeVars, selVars, mutVars, replayVars, timerVars, hostVars,
                 foodVars, restVars>>

\* PhysicsSystem.update(deltaTime)
PhysicsUpdate ==
  /\ ticks < MaxPhysicsTicks
  /\ ticks' = ticks + 1
  /\ IF physicsFile = "part_015"
     THEN \E d \in ChaosDraws : body' = XPhysicsJointChaos(body, PipelineDelta, d)
     ELSE body' = XPhysicsJoint(body, PipelineDelta)
  /\ lastOp' = "physics"
  /\ UNCHANGED <<world, foodAmount, populationSize, generationCount, foodsEaten,
                 accumulatedTime, thrown, contested>>
  /\ UNCHANGED <<pipeVars, selVars, mutVars, replayVars, timerVars, hostVars,
                 foodVars, restVars>>

NextPhysics ==
  \/ PhysicsAddForce
  \/ PhysicsUpdate

SpecPhysics == InitPhysics /\ [][NextPhysics]_vars

\* x and y are finite and inside the world bounds
InBounds(p) ==
  /\ IsFiniteVec(p)
  /\ 0 <= p[1].v /\ p[1].v <= CANVAS_WIDTH * 100
  /\ 0 <= p[2].v /\ p[2].v <= CANVAS_HEIGHT * 100

\* C21: after every PhysicsSystem.update the position and the velocity of
\* the entity are finite, and an entity whose position or velocity turned
\* non-finite in the update is inside the world bounds with velocity (0,0).
C21_NonFiniteRecovered ==
  [][lastOp' = "physics"
       => /\ IsFiniteVec(body'.position) /\ IsFiniteVec(body'.velocity)
          /\ (~IsFiniteVec(body.force) \/ body'.reset)
               => /\ InBounds(body'.position)
                  /\ body'.velocity = FinVec(<<0, 0>>)]_vars

\* C25: after PhysicsSystem.update an entity that was integrated is inside
\* the world bounds, its force is (0,0), and on every clamped axis its
\* velocity is the reverse of the velocity it came in with and smaller.
C25_ClampedInsideBounds ==
  (lastOp = "physics" /\ body.integrated /\ IsFiniteVec(body.incoming)
     /\ IsFiniteVec(body.position))
    => /\ InBounds(body.position)
       /\ body.force = FinVec(<<0, 0>>)
       /\ \A axis \in {1, 2} :
            body.clamped[axis]
              => /\ IsFinite(body.velocity[axis])
                 /\ Sign(body.velocity[axis].v) = 0 - Sign(body.incoming[axis].v)
                 /\ Abs(body.velocity[axis].v) <= Abs(body.incoming[axis].v)
                 /\ (body.incoming[axis].v # 0
                       => Abs(body.velocity[axis].v) < Abs(body.incoming[axis].v))

-----------------------------------------------------------------------------
(***************************************************************************)
(* Springs and timed flips (specification SpecSprings): two connected      *)
(* joints of one organism under StateSystem, JointConnectionSystem and     *)
(* PhysicsSystem.js, with the spring force of every connection computed    *)
(* from positions and rest lengths (hundredths) and the flip-back timeouts  *)
(* of JointConnectionSystem kept one by one.                                *)
(***************************************************************************)
JOINT_REST_LENGTH == 3000   \* 30, in hundredths
JOINT_STIFFNESS == 120      \* 1.2, in hundredths

\* the JointConnectionSystem sources modelled here
ConnectionFiles == {"part_012", "JointConnectionSystem.js"}

\* distances the two joints are created at
SpringDistances == {3000, 4000}

\* outcomes of the Math.random() calls of JointConnectionSystem.js for one
\* connection: the contraction factor of the rest length and the factor of
\* the stiffness, in hundredths (random push, rotation and impulse: none)
MuscleDraws == [contraction : {100, 150}, stiffness : {100}]

\* the draws with which JointConnectionSystem.js computes Hooke's law
PlainMuscle == [contraction |-> 100, stiffness |-> 100]

TruncDiv(a, b) == Sign(a) * (Abs(a) \div b)

\* direction.normalize().multiply(stretch * stiffness) for the joint at p,
\* its peer at q and the rest length rest
SpringForce(p, q, rest, d) ==
  LET dx == q[1] - p[1]
      dy == q[2] - p[2]
      length == ISqrt(dx * dx + dy * dy)
      distance == Max(10, length)
      stretch == distance - (rest * d.contraction) \div 100
      magnitude == (stretch * JOINT_STIFFNESS * d.stiffness) \div 10000
  IN IF length = 0 THEN <<0, 0>>
     ELSE <<TruncDiv(dx * magnitude, length), TruncDiv(dy * magnitude, length)>>

\* distance - restLength of the connection of joint j
Stretch(joints, j) ==
  LET p == joints[j].position
      q == joints[3 - j].position
      dx == q[1] - p[1]
      dy == q[2] - p[2]
  IN Max(10, ISqrt(dx * dx + dy * dy)) - joints[j].restLength

\* physics.force = physics.force.add(f) for a spring force f
AddSpring(joint, f, tick) ==
  [AddForce(joint, f, tick) EXCEPT !.spring = AddVec(@, f),
                                   !.applications = @ + 1]

NegVec(v) == <<0 - v[1], 0 - v[2]>>

\* the body of the loop of src/unnamed/part_012 for joint j: its own spring
\* force and the reaction onto a peer that is not anchored
PairedJoint(joints, j, tick) ==
  LET c == 3 - j
      f == SpringForce(joints[j].position, joints[c].position,
                       joints[j].restLength, PlainMuscle)
      own == [joints EXCEPT ![j] = AddSpring(@, f, tick)]
  IN IF joints[j].isAnchored THEN joints
     ELSE IF joints[c].isAnchored THEN own
     ELSE [own EXCEPT ![c] = AddSpring(@, NegVec(f), tick)]

\* the body of the loop of JointConnectionSystem.js for joint j
MuscleJoint(joints, j, d, tick) ==
  LET c == 3 - j
      f == SpringForce(joints[j].position, joints[c].position,
                       joints[j].restLength, d)
  IN IF joints[j].isAnchored THEN joints
     ELSE [joints EXCEPT ![j] = AddSpring(@, f, tick)]

\* what a pass of JointConnectionSystem.update remembers of its entry state
AtEntry(joints) ==
  [j \in DOMAIN joints |->
     [joints[j] EXCEPT !.spring = <<0, 0>>, !.applications = 0,
                       !.wasAnchored = joints[j].isAnchored,
                       !.entryStretch = Stretch(joints, j)]]

\* joint.isAnchored = !joint.isAnchored with the timeout of the flip-back;
\* the timeout is remembered by the value the flag had before the flip
Flip(joints, flip) ==
  IF flip = 0 THEN joints
  ELSE [joints EXCEPT ![flip].isAnchored = ~@,
                      ![flip].flips = Append(@, joints[flip].isAnchored)]

SpringJoints ==
  [d \in SpringDistances |->
    [j \in {1, 2} |->
      [isAnchored |-> FALSE,
       position |-> IF j = 1 THEN <<40000, 25000>> ELSE <<40000 + d, 25000>>,
       velocity |-> <<0, 0>>,
       force |-> <<0, 0>>,
       forceTick |-> 0,
       stateChangeTimer |-> FALSE,
       pendingFlips |-> 0,
       restLength |-> JOINT_REST_LENGTH,
       flips |-> <<>>,           \* pending flip-back timeouts
       spring |-> <<0, 0>>,      \* history: spring force of the last pass
       applications |-> 0,       \* history: spring forces added in that pass
       wasAnchored |-> FALSE,    \* history: isAnchored at its entry
       entryStretch |-> 0,       \* history: distance - restLength at its entry
       unsprung |-> <<0, 0>>,    \* history: where PhysicsSystem puts the
                                 \* joint without the spring force
       fired |-> FALSE,          \* history: the last timeout was this joint's
       before |-> FALSE]]]       \* history: isAnchored before its flip

InitSprings ==
  /\ connectionFile \in ConnectionFiles
  /\ \E d \in SpringDistances : springs = SpringJoints[d]
  /\ systems = <<"state", "connections", "physics">>
  /\ ran = <<>> /\ pjoints = <<>> /\ physicsFile = "PhysicsSystem.js"
  /\ pstale = FALSE
  /\ world = EmptyWorld
  /\ lastOp = "constructor"
  /\ worldIdle /\ selIdle /\ mutIdle
  /\ replayIdle /\ timerIdle /\ hostIdle /\ foodIdle
  /\ body = <<>> /\ moreIdle

\* bookkeeping of one step of the loop of World.update
SpringsAdvance(name) ==
  /\ NextSystem = name
  /\ IF BetweenTicks
     THEN /\ ticks < MaxSpringTicks
          /\ ticks' = ticks + 1
          /\ ran' = <<name>>
     ELSE /\ ticks' = ticks
          /\ ran' = Append(ran, name)
  /\ lastOp' = name
  /\ UNCHANGED <<world, foodAmount, populationSize, generationCount, foodsEaten,
                 accumulatedTime, thrown, contested, systems, pjoints,
                 physicsFile, pstale, connectionFile, body>>
  /\ UNCHANGED <<selVars, mutVars, replayVars, timerVars, hostVars, foodVars,
                 moreVars>>

\* StateSystem.update(deltaTime)
SpringsStateUpdate ==
  /\ SpringsAdvance("state")
  /\ \E d \in [DOMAIN springs -> StateDraws] :
       springs' = [j \in DOMAIN springs |-> StateSystemJoint(springs[j], d[j], ticks')]

\* JointConnectionSystem.update(deltaTime) of the source connectionFile
SpringsConnectionUpdate ==
  /\ SpringsAdvance("connections")
  /\ IF connectionFile = "part_012"
     THEN springs' = PairedJoint(PairedJoint(AtEntry(springs), 1, ticks'), 2, ticks')
     ELSE \E d \in [DOMAIN springs -> MuscleDraws],
             flip \in {0} \cup {j \in DOMAIN springs :
                                  Len(springs[j].flips) < MaxPendingFlips} :
            springs' = Flip(MuscleJoint(MuscleJoint(AtEntry(springs), 1, d[1], ticks'),
                                        2, d[2], ticks'), flip)

\* PhysicsSystem.update(deltaTime)
SpringsPhysicsUpdate ==
  /\ SpringsAdvance("physics")
  /\ springs' =
       [j \in DOMAIN springs |->
          [PhysicsJoint(springs[j], PipelineDelta) EXCEPT
             !.unsprung =
               PhysicsJoint([springs[j] EXCEPT
                               !.force = AddVec(@, NegVec(springs[j].spring))],
                            PipelineDelta).position]]

\* the setTimeout callback of StateSystem.temporaryStateChange for a joint
SpringsStateTimerFires ==
  /\ BetweenTicks
  /\ \E j \in DOMAIN springs :
       /\ springs[j].stateChangeTimer
       /\ springs' = [springs EXCEPT ![j].stateChangeTimer = FALSE]
  /\ lastOp' = "stateTimer"
  /\ UNCHANGED <<world, foodAmount, populationSize, generationCount, foodsEaten,
                 accumulatedTime, thrown, ticks, contested, connectionFile, body>>
  /\ UNCHANGED <<pipeVars, selVars, mutVars, replayVars, timerVars, hostVars,
                 foodVars, moreVars>>

\* the setTimeout callback of a flip of JointConnectionSystem.update: the
\* timeout i of joint j
SpringsFlipTimerFires ==
  /\ BetweenTicks
  /\ \E j \in DOMAIN springs : \E i \in 1..Len(springs[j].flips) :
       springs' =
         [k \in DOMAIN springs |->
            IF k = j
            THEN [springs[k] EXCEPT
                    !.isAnchored = ~@,
                    !.flips = SubSeq(@, 1, i - 1) \o SubSeq(@, i + 1, Len(@)),
                    !.fired = TRUE,
                    !.before = springs[k].flips[i]]
            ELSE [springs[k] EXCEPT !.fired = FALSE]]
  /\ lastOp' = "flipTimer"
  /\ UNCHANGED <<world, foodAmount, populationSize, generationCount, foodsEaten,
                 accumulatedTime, thrown, ticks, contested, connectionFile, body>>
  /\ UNCHANGED <<pipeVars, selVars, mutVars, replayVars, timerVars, hostVars,
                 foodVars, moreVars>>

NextSprings ==
  \/ SpringsStateUpdate
  \/ SpringsConnectionUpdate
  \/ SpringsPhysicsUpdate
  \/ SpringsStateTimerFires
  \/ SpringsFlipTimerFires

SpecSprings == InitSprings /\ [][NextSprings]_vars

\* C22: a free joint whose distance to its peer equals the rest length of
\* the connection when JointConnectionSystem.update starts gets the spring
\* force (0,0) from that pass, and the PhysicsSystem pass that follows puts
\* it where it would be without the spring.
C22_NoForceAtRestLength ==
  \A j \in DOMAIN springs :
    (springs[j].entryStretch = 0 /\ ~springs[j].wasAnchored)
      => /\ lastOp = "connections" => springs[j].spring = <<0, 0>>
         /\ lastOp = "physics" => springs[j].position = springs[j].unsprung

\* C23: after JointConnectionSystem.update every joint that was free at its
\* start has received the spring force of its connection exactly once, and
\* that force is Hooke's force for its stretch and stiffness.
C23_SpringCountedOnce ==
  lastOp = "connections"
    => \A j \in DOMAIN springs :
         ~springs[j].wasAnchored
           => /\ springs[j].applications = 1
              /\ springs[j].spring =
                   SpringForce(springs[j].position, springs[3 - j].position,
                               springs[j].restLength, PlainMuscle)

\* C28: the callback of a timed flip leaves isAnchored at the value it had
\* before that flip.
C28_FlipRestored ==
  lastOp = "flipTimer"
    => \A j \in DOMAIN springs :
         springs[j].fired => springs[j].isAnchored = springs[j].before

-----------------------------------------------------------------------------
(***************************************************************************)
(* Anchor decisions (specification SpecState): StateSystem.update on the   *)
(* joints of one organism, in the order of the pass.  The model follows    *)
(* the isAnchored flags and the debounce flags; the forces the pass adds   *)
(* do not enter any decision.                                              *)
(***************************************************************************)
\* the StateSystem sources modelled here
StateFiles == {"part_009", "part_011", "StateSystem.js"}

\* genetics.anchorRatio, in hundredths (EvolutionSystem draws 0.1-0.4)
AnchorRatios == {10, 30, 40}

\* organism.jointIds.length
StateJointCounts == {3}

\* what the pass finds for one joint: where the closest food is (none in
\* sensor range, or below moveThreshold; "near" is below anchorThreshold and
\* "far" beyond moveThreshold), and the outcomes of the Math.random() tests
\* of the branch taken
SenseDraws ==
  [sensed : {"none", "mid"}, chance : BOOLEAN,
   ignore : {FALSE}, opposite : {FALSE}]
ModeDraws ==
  [sensed : {"none"}, chance : BOOLEAN, ignore : {FALSE}, opposite : BOOLEAN]

\* anchoredJoints of the loop over organism.jointIds
AnchoredJoints(joints) == Cardinality({k \in DOMAIN joints : joints[k].isAnchored})

\* currentAnchorRatio < genetics.anchorRatio * factor / 100
UnderQuota(joints, ratio, factor) ==
  AnchoredJoints(joints) * 10000 < ratio * factor * Len(joints)

\* the decision of src/unnamed/part_009 for joint j
DecidePlain(joints, j, ratio, d) ==
  LET anchor == CASE d.sensed = "near" -> TRUE
                  [] d.sensed = "mid" -> UnderQuota(joints, ratio, 100) /\ d.chance
                  [] OTHER -> UnderQuota(joints, ratio, 100)
  IN [joints EXCEPT ![j].isAnchored = anchor,
                    ![j].sensed = d.sensed, ![j].evaluated = TRUE]

\* temporaryStateChange of src/unnamed/part_011
ChangeIfDifferent(joints, j, anchorState) ==
  IF joints[j].isAnchored = anchorState THEN joints
  ELSE [joints EXCEPT ![j].isAnchored = anchorState,
                      ![j].stateChangeTimer = TRUE]

\* temporaryStateChange of StateSystem.js
ChangeAtRandom(joints, j, anchorState, d) ==
  IF d.ignore THEN joints
  ELSE [joints EXCEPT ![j].isAnchored = IF d.opposite THEN ~anchorState
                                        ELSE anchorState,
                      ![j].stateChangeTimer = TRUE]

\* the decision of src/unnamed/part_011 for joint j
DecideTimed(joints, j, ratio, d) ==
  LET anchor == CASE d.sensed = "near" -> TRUE
                  [] d.sensed = "mid" -> UnderQuota(joints, ratio, 70) /\ d.chance
                  [] OTHER -> UnderQuota(joints, ratio, 100) /\ d.chance
      seen == [joints EXCEPT ![j].sensed = d.sensed, ![j].evaluated = TRUE]
  IN IF joints[j].stateChangeTimer
     THEN [joints EXCEPT ![j].evaluated = FALSE]
     ELSE ChangeIfDifferent(seen, j, anchor)

\* the decision of StateSystem.js for joint j: shouldAnchor is the outcome
\* of the Math.random() test of the organism's behaviour mode
DecideByMode(joints, j, d) ==
  LET seen == [joints EXCEPT ![j].sensed = d.sensed, ![j].evaluated = TRUE]
  IN IF joints[j].stateChangeTimer
     THEN [joints EXCEPT ![j].evaluated = FALSE]
     ELSE ChangeAtRandom(seen, j, d.chance, d)

RECURSIVE StatePass(_, _, _, _, _)
\* the loop of StateSystem.update over the joints from joint j on
StatePass(file, joints, j, ratio, d) ==
  IF j > Len(joints) THEN joints
  ELSE LET decided ==
             CASE file = "part_009" -> DecidePlain(joints, j, ratio, d[j])
               [] file = "part_011" -> DecideTimed(joints, j, ratio, d[j])
               [] OTHER -> DecideByMode(joints, j, d[j])
       IN StatePass(file, decided, j + 1, ratio, d)

InitState ==
  /\ stateFile \in StateFiles
  /\ quota \in AnchorRatios
  /\ \E n \in StateJointCounts :
       stateJoints = [j \in 1..n |->
                        [isAnchored |-> FALSE, stateChangeTimer |-> FALSE,
                         sensed |-> "none",    \* history: what the last pass found
                         evaluated |-> FALSE]] \* history: the last pass decided
  /\ world = EmptyWorld
  /\ lastOp = "constructor"
  /\ worldIdle /\ pipeIdle /\ selIdle /\ mutIdle
  /\ replayIdle /\ timerIdle /\ hostIdle /\ foodIdle
  /\ body = <<>> /\ springs = <<>> /\ connectionFile = "" /\ evoIdle

\* StateSystem.update(deltaTime) of the source stateFile
StateUpdate ==
  /\ ticks < MaxStateTicks
  /\ ticks' = ticks + 1
  /\ \E d \in [DOMAIN stateJoints ->
                 IF stateFile = "StateSystem.js" THEN ModeDraws ELSE SenseDraws] :
       stateJoints' = StatePass(stateFile, stateJoints, 1, quota, d)
  /\ lastOp' = "stateUpdate"
  /\ UNCHANGED <<world, foodAmount, populationSize, generationCount, foodsEaten,
                 accumulatedTime, thrown, contested, stateFile, quota>>
  /\ UNCHANGED <<pipeVars, selVars, mutVars, replayVars, timerVars, hostVars,
                 foodVars, body, springs, connectionFile, evoVars>>

\* the setTimeout callback of temporaryStateChange for joint j
StateDebounceExpires ==
  /\ \E j \in DOMAIN stateJoints :
       /\ stateJoints[j].stateChangeTimer
       /\ stateJoints' = [stateJoints EXCEPT ![j].stateChangeTimer = FALSE]
  /\ lastOp' = "stateTimer"
  /\ UNCHANGED <<world, foodAmount, populationSize, generationCount, foodsEaten,
                 accumulatedTime, thrown, ticks, contested, stateFile, quota>>
  /\ UNCHANGED <<pipeVars, selVars, mutVars, replayVars, timerVars, hostVars,
                 foodVars, body, springs, connectionFile, evoVars>>

NextState ==
  \/ StateUpdate
  \/ StateDebounceExpires

SpecState == InitState /\ [][NextState]_vars

\* the anchored joints joint j finds when the pass reaches it: the joints
\* before it as the pass left them, the others as they were
CountAt(before, after, j) ==
  Cardinality({k \in DOMAIN before : IF k < j THEN after[k].isAnchored
                                     ELSE before[k].isAnchored})

\* C24: a joint that StateSystem.update evaluates and that senses no food is
\* anchored after the pass iff the anchored-joint ratio of its organism, read
\* when the joint was evaluated, was below genetics.anchorRatio.
C24_NoFoodFollowsQuota ==
  [][lastOp' = "stateUpdate"
       => \A j \in DOMAIN stateJoints :
            (stateJoints'[j].evaluated /\ stateJoints'[j].sensed = "none")
              => (stateJoints'[j].isAnchored
                    <=> CountAt(stateJoints, stateJoints', j) * 100
                          < quota * Len(stateJoints))]_vars

\* C30: after a StateSystem.update in which no joint of the organism sensed
\* food, anchored joints / total joints is at least genetics.anchorRatio.
C30_QuotaMetAfterPass ==
  (lastOp = "stateUpdate"
     /\ \A j \in DOMAIN stateJoints :
          stateJoints[j].evaluated /\ stateJoints[j].sensed = "none")
    => AnchoredJoints(stateJoints) * 100 >= quota * Len(stateJoints)

-----------------------------------------------------------------------------
\* The survival bonus (specification Spec)

\* C27: in a tick whose FoodSystem.update pays the survival bonus (the
\* accumulated time exceeded 1.0 and was reset), every organism of the world
\* gains the bonus of 0.1 on top of what it earned by eating.
C27_BonusForEveryOrganism ==
  [][(lastOp' = "tick" /\ accumulatedTime' = 0)
       => \A o \in OrganismIds(world) :
            /\ o \in OrganismIds(world')
            /\ world'.entities[o].fitness
                 = world.entities[o].fitness + 1
                   + FOOD_VALUE * 10 * (world'.entities[o].foodEaten
                                          - world.entities[o].foodEaten)]_vars

-----------------------------------------------------------------------------
(***************************************************************************)
(* Parents of a generation (specification SpecBreed): createNextGeneration *)
(* on a population given by the fitness of its organisms (tenths), in the  *)
(* order of the world.  The joints of the organisms play no part in the    *)
(* choice of parents; every reproduceOrganism call is recorded with the    *)
(* entities removed before it.                                             *)
(***************************************************************************)
\* populationSize values: of the constructor, and of setParams
BreedPopulations == {1, 3, 10}
BreedTargets == {1, 2, 3}

\* the organisms that eat, by position in the world
BreedEaters == {1, 2, 10}

\* generationCount values at the start (the counter rises by one per call)
BreedGenerations == {9, 10}

\* the top slice taken whole (mutant)
NumSurvivorsAll(n, generation) == n

\* numSurvivors of createNextGeneration
NumSurvivors(n, generation) ==
  Max(2, IF generation <= 10 THEN (n * 7) \div 10 ELSE n \div 2)

\* randomCount of createNextGeneration
RandomCount(n) == Min(3, n \div 10)

RECURSIVE AddRandom(_, _, _, _)
\* the loop that pushes random lower-ranked organisms: draws are the
\* outcomes of Math.floor(Math.random() * (n - numSurvivors))
AddRandom(survivors, ranked, numSurvivors, draws) ==
  IF draws = <<>> THEN survivors
  ELSE LET candidate == ranked[numSurvivors + Head(draws) + 1]
       IN AddRandom(IF Includes(survivors, candidate) THEN survivors
                    ELSE Append(survivors, candidate),
                    ranked, numSurvivors, Tail(draws))

\* survivors of createNextGeneration, random additions included
SurvivorsWithRandom(ranked, generation, draws) ==
  LET n == Len(ranked)
      numSurvivors == NumSurvivors(n, generation)
      top == SubSeq(ranked, 1, Min(n, numSurvivors))
  IN IF n > numSurvivors THEN AddRandom(top, ranked, numSurvivors, draws) ELSE top

\* the world as createNextGeneration's ranking reads it
FitnessWorld(fits) == [entities |-> [o \in 1..Len(fits) |-> [fitness |-> fits[o]]]]

\* the reproduceOrganism calls of createNextGeneration for the survivors and
\* the outcomes rnds of Math.random() in selectParentWeighted: parent, and
\* the old entities removed before the call (the removal loop comes last)
BreedCalls(fits, survivors, rnds) ==
  LET weights == [k \in 1..Len(survivors) |-> fits[survivors[k]]]
  IN <<[parent |-> survivors[1], removed |-> {}]>> \o
     [k \in 1..Len(rnds) |->
        [parent |-> survivors[SelectParentWeighted(weights, rnds[k])],
         removed |-> {}]]

InitBreed ==
  /\ populationSize \in BreedPopulations
  /\ generationCount \in BreedGenerations
  /\ parents = [fitness |-> [o \in 1..populationSize |-> 0],
                ranked |-> <<>>, extras |-> {}, calls |-> <<>>, old |-> 0]
  /\ world = EmptyWorld
  /\ foodAmount = 0 /\ foodsEaten = 0 /\ accumulatedTime = 0
  /\ thrown = FALSE /\ ticks = 0 /\ contested = FALSE
  /\ lastOp = "initializeGeneration"
  /\ pipeIdle /\ selIdle /\ mutIdle
  /\ replayIdle /\ timerIdle /\ hostIdle /\ foodIdle
  /\ body = <<>> /\ springs = <<>> /\ connectionFile = ""
  /\ stateJoints = <<>> /\ stateFile = "" /\ quota = 0 /\ pauseIdle

\* FoodSystem.update in which organism o eats one food
BreedFeed ==
  /\ ticks < MaxBreedMeals
  /\ ticks' = ticks + 1
  /\ \E o \in BreedEaters \cap (1..Len(parents.fitness)) :
       parents' = [parents EXCEPT !.fitness[o] = @ + FOOD_VALUE * 10]
  /\ lastOp' = "update"
  /\ UNCHANGED <<world, foodAmount, populationSize, generationCount, foodsEaten,
                 accumulatedTime, thrown, contested>>
  /\ UNCHANGED <<pipeVars, selVars, mutVars, replayVars, timerVars, hostVars,
                 foodVars, body, springs, connectionFile, stateJoints,
                 stateFile, quota, pauseVars>>

\* EvolutionSystem.setParams(foodAmount, populationSize, mutationRate)
BreedSetParams ==
  /\ lastOp # "setParams"
  /\ \E p \in BreedTargets \ {populationSize} : populationSize' = p
  /\ lastOp' = "setParams"
  /\ UNCHANGED <<world, foodAmount, generationCount, foodsEaten,
                 accumulatedTime, thrown, ticks, contested, parents>>
  /\ UNCHANGED <<pipeVars, selVars, mutVars, replayVars, timerVars, hostVars,
                 foodVars, body, springs, connectionFile, stateJoints,
                 stateFile, quota, pauseVars>>

\* EvolutionSystem.createNextGeneration()
BreedCreateNextGeneration ==
  /\ generationCount < MaxBreedGeneration
  /\ populationSize \in BreedTargets
  /\ generationCount' = generationCount + 1
  /\ LET fits == parents.fitness
         n == Len(fits)
         ranked == SortByFitness(FitnessWorld(fits), [o \in 1..n |-> o], <<>>)
         numSurvivors == NumSurvivors(n, generationCount')
     IN \E draws \in [1..(IF n > numSurvivors THEN RandomCount(n) ELSE 0)
                        -> 0..(n - numSurvivors - 1)],
           rnds \in [1..(populationSize - 1) -> EvolutionRandoms] :
          LET survivors == SurvivorsWithRandom(ranked, generationCount', draws)
              made == BreedCalls(fits, survivors, rnds)
          IN parents' = [fitness |-> [o \in 1..Len(made) |-> 0],
                         ranked |-> ranked,
                         extras |-> SeqToSet(survivors)
                                      \ SeqToSet(SubSeq(ranked, 1, Min(n, numSurvivors))),
                         calls |-> made,
                         old |-> fits]
  /\ lastOp' = "createNextGeneration"
  /\ UNCHANGED <<world, foodAmount, populationSize, foodsEaten,
                 accumulatedTime, thrown, ticks, contested>>
  /\ UNCHANGED <<pipeVars, selVars, mutVars, replayVars, timerVars, hostVars,
                 foodVars, body, springs, connectionFile, stateJoints,
                 stateFile, quota, pauseVars>>

NextBreed ==
  \/ BreedFeed
  \/ BreedSetParams
  \/ BreedCreateNextGeneration

SpecBreed == InitBreed /\ [][NextBreed]_vars

\* position of organism o in the ranking
RankOf(ranked, o) == CHOOSE k \in 1..Len(ranked) : ranked[k] = o

-----------------------------------------------------------------------------
(***************************************************************************)
(* Pause and resume (specification SpecPause): the main effect of          *)
(* useECSSimulation, which React runs again whenever isRunning or          *)
(* needsRestart changes.  hostWorld holds the React state (isRunning,      *)
(* needsRestart, generation) and the world of worldRef: the number of the  *)
(* organism generation it holds (organisms, a fresh number for every       *)
(* initializeGeneration and createNextGeneration), the updates these       *)
(* organisms have lived through (age), the World objects constructed so    *)
(* far (worlds) and, as history, the organisms and their age at the last   *)
(* pause (paused).  generationCount is the counter of the EvolutionSystem  *)
(* of evolutionSystemRef.                                                  *)
(***************************************************************************)
\* the main effect's body up to the first frame: new World, new systems, a
\* new EvolutionSystem, initializeGeneration
MainEffect(h) ==
  [h EXCEPT !.worlds = @ + 1, !.organisms = h.cohorts + 1, !.cohorts = @ + 1,
            !.age = 0]

InitPause ==
  /\ hostWorld = [isRunning |-> TRUE, needsRestart |-> FALSE, generation |-> 0,
                  worlds |-> 1, organisms |-> 1, cohorts |-> 1, age |-> 0,
                  paused |-> <<>>]
  /\ world = EmptyWorld
  /\ lastOp = "constructor"
  /\ worldIdle /\ pipeIdle /\ selIdle /\ mutIdle
  /\ replayIdle /\ timerIdle /\ hostIdle /\ foodIdle
  /\ body = <<>> /\ springs = <<>> /\ connectionFile = ""
  /\ stateJoints = <<>> /\ stateFile = "" /\ quota = 0 /\ parents = <<>>

pauseFrame == <<world, foodAmount, populationSize, foodsEaten,
                accumulatedTime, thrown, contested, ticks>>

\* simulate(currentTime) of a running loop without a pending restart:
\* world.update, and createNextGeneration if the generation ends
PauseSimulate ==
  /\ hostWorld.isRunning /\ ~hostWorld.needsRestart
  /\ hostWorld.age < MaxPauseFrames
  /\ \E shouldEndGeneration \in BOOLEAN :
       IF shouldEndGeneration
       THEN /\ generationCount < MaxPauseGenerations
            /\ generationCount' = generationCount + 1
            /\ hostWorld' = [hostWorld EXCEPT !.generation = @ + 1,
                                              !.organisms = hostWorld.cohorts + 1,
                                              !.cohorts = @ + 1,
                                              !.age = 0]
            /\ lastOp' = "createNextGeneration"
       ELSE /\ hostWorld' = [hostWorld EXCEPT !.age = @ + 1]
            /\ lastOp' = "update"
            /\ UNCHANGED generationCount
  /\ UNCHANGED pauseFrame
  /\ UNCHANGED <<pipeVars, selVars, mutVars, replayVars, timerVars, hostVars,
                 foodVars, body, springs, connectionFile, stateJoints,
                 stateFile, quota, parents>>

\* toggleSimulation() while running, and the effect run that follows: the
\* cleanup cancels the frame, the effect builds its world and starts no loop
PauseToggle ==
  /\ hostWorld.isRunning
  /\ hostWorld.worlds < MaxPauseWorlds
  /\ hostWorld' = [MainEffect(hostWorld) EXCEPT
                     !.isRunning = FALSE,
                     !.paused = <<[organisms |-> hostWorld.organisms,
                                   age |-> hostWorld.age,
                                   generationCount |-> generationCount]>>]
  /\ generationCount' = 0
  /\ lastOp' = "pause"
  /\ UNCHANGED pauseFrame
  /\ UNCHANGED <<pipeVars, selVars, mutVars, replayVars, timerVars, hostVars,
                 foodVars, body, springs, connectionFile, stateJoints,
                 stateFile, quota, parents>>

\* toggleSimulation() while paused, and the effect run that follows
ResumeToggle ==
  /\ ~hostWorld.isRunning
  /\ hostWorld.worlds < MaxPauseWorlds
  /\ hostWorld' = [MainEffect(hostWorld) EXCEPT !.isRunning = TRUE]
  /\ generationCount' = 0
  /\ lastOp' = "resume"
  /\ UNCHANGED pauseFrame
  /\ UNCHANGED <<pipeVars, selVars, mutVars, replayVars, timerVars, hostVars,
                 foodVars, body, springs, connectionFile, stateJoints,
                 stateFile, quota, parents>>

\* restartSimulation(), and the effect run that follows
PauseRestart ==
  /\ ~hostWorld.needsRestart
  /\ hostWorld.worlds < MaxPauseWorlds
  /\ hostWorld' = [MainEffect(hostWorld) EXCEPT !.needsRestart = TRUE,
                                                !.paused = <<>>]
  /\ generationCount' = 0
  /\ lastOp' = "restart"
  /\ UNCHANGED pauseFrame
  /\ UNCHANGED <<pipeVars, selVars, mutVars, replayVars, timerVars, hostVars,
                 foodVars, body, springs, connectionFile, stateJoints,
                 stateFile, quota, parents>>

\* simulate(currentTime) of a running loop with a pending restart:
\* initializeGeneration, setGeneration(0), setNeedsRestart(false), and the
\* effect run that the change of needsRestart brings
PauseRestartFrame ==
  /\ hostWorld.isRunning /\ hostWorld.needsRestart
  /\ hostWorld.worlds < MaxPauseWorlds
  /\ hostWorld' = [MainEffect(hostWorld) EXCEPT !.needsRestart = FALSE,
                                                !.generation = 0,
                                                !.paused = <<>>]
  /\ generationCount' = 0
  /\ lastOp' = "restartFrame"
  /\ UNCHANGED pauseFrame
  /\ UNCHANGED <<pipeVars, selVars, mutVars, replayVars, timerVars, hostVars,
                 foodVars, body, springs, connectionFile, stateJoints,
                 stateFile, quota, parents>>

NextPause ==
  \/ PauseSimulate
  \/ PauseToggle
  \/ ResumeToggle
  \/ PauseRestart
  \/ PauseRestartFrame

SpecPause == InitPause /\ [][NextPause]_vars

\* C29: while the loop runs with no restart pending, the generation shown by
\* the host is the generationCount of the EvolutionSystem of the world being
\* ticked, and after a resume the world holds the organisms that it held at
\* the pause, as old as they were.
C29_ResumeContinues ==
  /\ (hostWorld.isRunning /\ ~hostWorld.needsRestart)
       => hostWorld.generation = generationCount
  /\ (lastOp = "resume" /\ hostWorld.paused # <<>>)
       => /\ hostWorld.organisms = hostWorld.paused[1].organisms
          /\ hostWorld.age = hostWorld.paused[1].age

=============================================================================
